---------------------------- MODULE Spec2Model ----------------------------
(***************************************************************************)
(* Thermobar, src/Thermobar/amphibole.py: equation dispatch               *)
(* (calculate_amp_only_press, calculate_amp_only_temp,                    *)
(* calculate_amp_liq_press, calculate_amp_liq_temp), the coupled P-T      *)
(* iteration (calculate_amp_only_press_temp, calculate_amp_liq_press_temp)*)
(* and the P_Ridolfi2021 selection and input checks.                      *)
(*                                                                         *)
(* Numbers.  The source computes in IEEE doubles; the model computes in   *)
(* integers with a fixed unit per quantity:                               *)
(*   oxide wt% and cations per formula unit : 1/100                       *)
(*   pressure in kbar                       : 1/1000 kbar                 *)
(*   pressure in MPa (P_MPa_1a .. P_MPa)    : 1/2 MPa                     *)
(*   temperature in K                       : 1/100 K                     *)
(* NaN is one reserved value; every comparison with NaN is false and      *)
(* every arithmetic result with a NaN operand is NaN, as in numpy.        *)
(***************************************************************************)
EXTENDS Integers, Sequences, FiniteSets, TLC

VARIABLES
    pc,          \* position in the running function or in the caller's script
    args,        \* the arguments of the running call that stay fixed
    ret,         \* what the latest call returned or raised
    amp_comps,   \* the caller's amphibole table: [rows, Sample_ID_Amp]
    liq_comps,   \* the caller's liquid table: [rows], or None
    i,           \* index of the classifier loop (line 355)
    P_MPa,       \* line 353: selected pressure per sample
    name,        \* line 354: label of the rule that fired, per sample
    Calcs_R,     \* lines 395-497: the output table, one record per sample
    first,       \* a caller's first dispatch: its dependent argument and outcome
    applied,     \* the first call's partial applied to a value: [x, out]
    second,      \* the caller's second dispatch on the same tables
    T_func,      \* lines 905, 1188
    P_func,      \* lines 907-909, 1191
    P_guess,     \* the solver's pressure, unbound until assigned
    T_K_guess,   \* the solver's temperature; starts as the argument T_K_guess
    rounds,      \* iterations of the solver's loop completed (lines 924, 1208)
    evals        \* how many times the solver has called a partial

\* The locals of a caller's script and of the coupled solver
script == <<liq_comps, first, applied, second>>
solver == <<T_func, P_func, P_guess, T_K_guess, rounds, evals>>

vars == <<pc, args, ret, amp_comps, i, P_MPa, name, Calcs_R, script, solver>>

----------------------------------------------------------------------------
(* IEEE NaN and the arithmetic the source relies on *)

NaN == -1000000000

IsNaN(x) == x = NaN

\* x + y and x - y on floats
Add(x, y) == IF IsNaN(x) \/ IsNaN(y) THEN NaN ELSE x + y
Sub(x, y) == IF IsNaN(x) \/ IsNaN(y) THEN NaN ELSE x - y

\* x < y and x > y on floats: false as soon as one side is NaN
Lt(x, y) == ~IsNaN(x) /\ ~IsNaN(y) /\ x < y
Gt(x, y) == ~IsNaN(x) /\ ~IsNaN(y) /\ x > y

Abs(x) == IF x < 0 THEN -x ELSE x

\* n/d > p/q for a float quotient n/d and a positive literal p/q (q > 0).
\* d = 0 gives +inf, -inf or NaN as numpy does.
QuotGt(n, d, p, q) ==
    IF IsNaN(n) \/ IsNaN(d) THEN FALSE
    ELSE IF d > 0 THEN n * q > p * d
    ELSE IF d < 0 THEN n * q < p * d
    ELSE n > 0

\* n/d < p/q, likewise
QuotLt(n, d, p, q) ==
    IF IsNaN(n) \/ IsNaN(d) THEN FALSE
    ELSE IF d > 0 THEN n * q < p * d
    ELSE IF d < 0 THEN n * q > p * d
    ELSE n < 0

\* A literal in MPa, in the model's unit of 1/2 MPa
MPa(x) == 2 * x

\* A literal with two decimals (wt%, cations), in the model's unit of 1/100:
\* Dec(98, 50) is 98.5
Dec(whole, hundredths) == 100 * whole + hundredths

Range(f) == {f[k] : k \in DOMAIN f}

----------------------------------------------------------------------------
(* The amphibole table.  One row holds the raw oxide columns the source    *)
(* reads by name, the columns that calculate_13cations_amphibole_ridolfi   *)
(* (cat13), calculate_23oxygens_amphibole (ox23) and the Mutch site        *)
(* allocation (mutch) derive from them, and the values of equations 1a-1e  *)
(* on the row.  These normalisations live in Thermobar.core and the        *)
(* exponentials of 1a-1e are not part of the model: their results are      *)
(* inputs.                                                                 *)

\* Line 328: the sum of every column of amp_comps but Sample_ID_Amp
Sum_input(r) == r.MgO_Amp + r.FeOt_Amp + r.F_Amp + r.Cl_Amp + r.Rest_Amp

\* Lines 341-345: P_MPa_1x = 100 * P_Ridolfi2012_1x(0, cat13 columns);
\* the equation's value is in kbar (1/1000), the result in MPa (1/2).
P_MPa_1a(r) == (100 * r.P_Ridolfi2012_1a * 2) \div 1000
P_MPa_1b(r) == (100 * r.P_Ridolfi2012_1b * 2) \div 1000
P_MPa_1c(r) == (100 * r.P_Ridolfi2012_1c * 2) \div 1000
P_MPa_1d(r) == (100 * r.P_Ridolfi2012_1d * 2) \div 1000
P_MPa_1e(r) == (100 * r.P_Ridolfi2012_1e * 2) \div 1000

\* Line 351
deltaPdb(r) == P_MPa_1d(r) - P_MPa_1b(r)

\* Line 350, XPae = (P_MPa_1a - P_MPa_1e) / P_MPa_1a, compared with p/100
XPae_gt(r, p) == QuotGt(P_MPa_1a(r) - P_MPa_1e(r), P_MPa_1a(r), p, 100)
XPae_lt(r, p) == QuotLt(P_MPa_1a(r) - P_MPa_1e(r), P_MPa_1a(r), p, 100)

----------------------------------------------------------------------------
(* Lines 355-390: one iteration of the classifier loop, for one sample *)

\* Select with the deltaPdb > 210 branch tested before deltaPdb > 350: the
\* fault that C1_FirstMatchWins has to detect
Select_DeltaRulesSwapped(r) ==
    LET a == P_MPa_1a(r)
        b == P_MPa_1b(r)
        c == P_MPa_1c(r)
        d == P_MPa_1d(r)
        e == P_MPa_1e(r)
    IN  IF b < MPa(335) THEN [P |-> b, name |-> "1b"]
        ELSE IF b < MPa(399) THEN [P |-> (b + c) \div 2, name |-> "(1b+1c)/2"]
        ELSE IF c < MPa(415) THEN [P |-> c, name |-> "1c"]
        ELSE IF d < MPa(470) THEN [P |-> c, name |-> "1c"]
        ELSE IF XPae_gt(r, 22) THEN [P |-> (c + d) \div 2, name |-> "1c+1d"]
        ELSE IF deltaPdb(r) > MPa(210) THEN [P |-> d, name |-> "1d"]
        ELSE IF deltaPdb(r) > MPa(350) THEN [P |-> e, name |-> "1e"]
        ELSE IF deltaPdb(r) < MPa(75) THEN [P |-> c, name |-> "1c"]
        ELSE IF XPae_lt(r, -20) THEN [P |-> (b + c) \div 2, name |-> "(1b+1c)/2"]
        ELSE IF XPae_gt(r, 5) THEN [P |-> (c + d) \div 2, name |-> "(1c+1d)/2"]
        ELSE [P |-> a, name |-> "1a"]

\* Lines 356-388: the if/elif chain; the selected pressure (1/2 MPa) and label
Select(r) ==
    LET a == P_MPa_1a(r)
        b == P_MPa_1b(r)
        c == P_MPa_1c(r)
        d == P_MPa_1d(r)
        e == P_MPa_1e(r)
    IN  IF b < MPa(335) THEN [P |-> b, name |-> "1b"]
        ELSE IF b < MPa(399) THEN [P |-> (b + c) \div 2, name |-> "(1b+1c)/2"]
        ELSE IF c < MPa(415) THEN [P |-> c, name |-> "1c"]
        ELSE IF d < MPa(470) THEN [P |-> c, name |-> "1c"]
        ELSE IF XPae_gt(r, 22) THEN [P |-> (c + d) \div 2, name |-> "1c+1d"]
        ELSE IF deltaPdb(r) > MPa(350) THEN [P |-> e, name |-> "1e"]
        ELSE IF deltaPdb(r) > MPa(210) THEN [P |-> d, name |-> "1d"]
        ELSE IF deltaPdb(r) < MPa(75) THEN [P |-> c, name |-> "1c"]
        ELSE IF XPae_lt(r, -20) THEN [P |-> (b + c) \div 2, name |-> "(1b+1c)/2"]
        ELSE IF XPae_gt(r, 5) THEN [P |-> (c + d) \div 2, name |-> "(1c+1d)/2"]
        ELSE [P |-> a, name |-> "1a"]

\* The iteration without lines 389-390: the fault that C2_LowTotalUndefined
\* has to detect
LowTotalOverwrite_Missing(r, P) == P

\* Lines 389-390: the low-total overwrite that ends the iteration
LowTotalOverwrite(r, P) == IF Sum_input(r) < Dec(90, 0) THEN NaN ELSE P

\* Lines 356-390 for row r: what the iteration leaves in P_MPa[i] and name[i]
ClassifyRow(r) ==
    [P |-> LowTotalOverwrite(r, Select(r).P), name |-> Select(r).name]

----------------------------------------------------------------------------
(* Lines 395-432: the derived columns of Calcs_R, per row.  cat13 is the   *)
(* row's r.cat13 record.                                                   *)

\* Line 399
Low_sum(r) == Sum_input(r) < Dec(90, 0)

\* Lines 403-405
Charge(r) ==
    LET c == r.cat13
    IN  c.SiO2_Amp_13_cat * 4 + c.TiO2_Amp_13_cat * 4 + c.Al2O3_Amp_13_cat * 3
        + c.Cr2O3_Amp_13_cat * 3 + c.FeOt_Amp_13_cat * 2 + c.MnO_Amp_13_cat * 2
        + c.MgO_Amp_13_cat * 2 + c.CaO_Amp_13_cat * 2 + c.Na2O_Amp_13_cat
        + c.K2O_Amp_13_cat

\* Lines 414-416
Fe3_calc(r) == IF Charge(r) > Dec(46, 0) THEN 0 ELSE Dec(46, 0) - Charge(r)

\* Line 418
Fe2_calc(r) == r.cat13.FeOt_Amp_13_cat - Fe3_calc(r)

\* Lines 400-401
H2O_calc(r) ==
    IF Low_sum(r) THEN NaN
    ELSE ((Dec(2, 0) - r.cat13.F_Amp_13_cat - r.cat13.Cl_Amp_13_cat)
          * r.cat13.cation_sum_Si_Mg * 17) \div (100 * 13 * 2)

\* Lines 421-422 (and 425, which clears the same column again); 159.691 is
\* kept to four digits, as is 71.846 below, to stay within 32-bit integers
Fe2O3_calc(r) ==
    IF Low_sum(r) THEN NaN
    ELSE (Fe3_calc(r) * r.cat13.cation_sum_Si_Mg * 1597) \div (100 * 10 * 13 * 2)

\* Line 424
FeO_calc(r) == (Fe2_calc(r) * r.cat13.cation_sum_Si_Mg * 7185) \div (100 * 100 * 13)

\* Lines 427-428
O_F_Cl(r) ==
    IF Low_sum(r) THEN NaN
    ELSE -((r.F_Amp * 421 + r.Cl_Amp * 226) \div 1000)

\* Lines 430-431
Total_recalc(r) ==
    Add(Add(Add(Add(Sub(Sum_input(r), r.FeOt_Amp), H2O_calc(r)), Fe2O3_calc(r)),
            FeO_calc(r)), O_F_Cl(r))

\* Lines 408-409: APE = |P_MPa_1a - P_MPa| / (P_MPa_1a + P_MPa) * 200 > 60
High_APE(r, P) ==
    /\ ~IsNaN(P)
    /\ QuotGt(Abs(P_MPa_1a(r) - P) * 200, P_MPa_1a(r) + P, 60, 1)

----------------------------------------------------------------------------
(* Lines 438-492: the predicates of the input checks, per row *)

\* Line 445
Low_total_Recalc(r) == Lt(Total_recalc(r), Dec(98, 50))
\* Line 450
High_total_Recalc(r) == Gt(Total_recalc(r), Dec(102, 0))
\* Line 455
Unbalanced_Charge(r) == Charge(r) > Dec(46, 50)
\* Line 460
Negative_Fe2(r) == Fe2_calc(r) < 0
\* Lines 465-466: 100 * MgO / (MgO + Fe2_calc) < 54
Low_Mgno(r) ==
    QuotLt(100 * r.cat13.MgO_Amp_13_cat, r.cat13.MgO_Amp_13_cat + Fe2_calc(r), 54, 1)
\* Line 475
Ca_low(r) == r.cat13.CaO_Amp_13_cat < Dec(1, 50)
\* Line 480
Ca_high(r) == r.cat13.CaO_Amp_13_cat > Dec(2, 5)
\* The larger of the two values instead of the smaller: the fault that
\* C25_BSiteSumAtMostTwo has to detect
Na_calc_Larger(r) ==
    IF r.cat13.Na2O_Amp_13_cat < Dec(2, 0) - r.cat13.CaO_Amp_13_cat
    THEN Dec(2, 0) - r.cat13.CaO_Amp_13_cat
    ELSE r.cat13.Na2O_Amp_13_cat

\* Lines 485-487
Na_calc(r) ==
    IF r.cat13.Na2O_Amp_13_cat < Dec(2, 0) - r.cat13.CaO_Amp_13_cat
    THEN r.cat13.Na2O_Amp_13_cat
    ELSE Dec(2, 0) - r.cat13.CaO_Amp_13_cat
\* Line 488
B_Sum(r) == Na_calc(r) + r.cat13.CaO_Amp_13_cat
\* Line 490
Low_B_Cations(r) == B_Sum(r) < Dec(1, 99)

----------------------------------------------------------------------------
(* Inputs.  A row is built from the five equation values the classifier    *)
(* reads and from the composition the input checks read.                   *)

\* Values of P_Ridolfi2012_1a .. 1e on a row, in kbar (1/1000)
ClassInputs ==
    [P_Ridolfi2012_1a : {5000, 10000},
     P_Ridolfi2012_1b : {3000, 3500, 4300},
     P_Ridolfi2012_1c : {4100, 4200},
     P_Ridolfi2012_1d : {4600, 5000, 6000, 7000, 8000},
     P_Ridolfi2012_1e : {7000, 9000, 10000}]

\* The composition: the oxide columns besides FeOt, MgO, F, Cl summed
\* (Rest_Amp, wt%) and the 13-cation columns that the checks vary
GateInputs ==
    [Rest_Amp : {6300, 6900, 7150, 7500},
     Si : {650, 725}, Al : {190, 200, 220}, Mg : {150, 300},
     Ca : {140, 180, 210}, Na : {10, 60}]

MakeRow(ci, gi) ==
    [P_Ridolfi2012_1a |-> ci.P_Ridolfi2012_1a,
     P_Ridolfi2012_1b |-> ci.P_Ridolfi2012_1b,
     P_Ridolfi2012_1c |-> ci.P_Ridolfi2012_1c,
     P_Ridolfi2012_1d |-> ci.P_Ridolfi2012_1d,
     P_Ridolfi2012_1e |-> ci.P_Ridolfi2012_1e,
     MgO_Amp |-> 1400, FeOt_Amp |-> 1200, F_Amp |-> 0, Cl_Amp |-> 0,
     Rest_Amp |-> gi.Rest_Amp,
     cat13 |-> [SiO2_Amp_13_cat |-> gi.Si, TiO2_Amp_13_cat |-> 20,
                Al2O3_Amp_13_cat |-> gi.Al, Cr2O3_Amp_13_cat |-> 0,
                FeOt_Amp_13_cat |-> 150, MnO_Amp_13_cat |-> 0,
                MgO_Amp_13_cat |-> gi.Mg, CaO_Amp_13_cat |-> gi.Ca,
                Na2O_Amp_13_cat |-> gi.Na, K2O_Amp_13_cat |-> 10,
                F_Amp_13_cat |-> 0, Cl_Amp_13_cat |-> 0,
                cation_sum_Si_Mg |-> 150],
     ox23 |-> [SiO2_Amp_cat_23ox |-> gi.Si - 10, TiO2_Amp_cat_23ox |-> 20,
               Al2O3_Amp_cat_23ox |-> gi.Al - 5, FeOt_Amp_cat_23ox |-> 145,
               MgO_Amp_cat_23ox |-> gi.Mg - 5, CaO_Amp_cat_23ox |-> gi.Ca - 5,
               Na2O_Amp_cat_23ox |-> gi.Na, K2O_Amp_cat_23ox |-> 10,
               cation_sum_Si_Ca |-> 1500],
     mutch |-> [Al_T |-> 150, Al_C |-> gi.Al - 150]]

\* A composition that passes every check, and the same with a total below 90
GatePass == [Rest_Amp |-> 7150, Si |-> 650, Al |-> 200, Mg |-> 300, Ca |-> 180, Na |-> 60]
GateLowSum == [GatePass EXCEPT !.Rest_Amp = 6300]
\* One that fails the calcium and the B-site checks only
GateLowCa == [GatePass EXCEPT !.Ca = 140, !.Na = 10]

\* Equation values that select 1b, (1c+1d)/2 by the first XPae rule, and 1a
ClassRule1 == [P_Ridolfi2012_1a |-> 10000, P_Ridolfi2012_1b |-> 3000,
               P_Ridolfi2012_1c |-> 4200, P_Ridolfi2012_1d |-> 6000,
               P_Ridolfi2012_1e |-> 10000]
ClassRule5 == [ClassRule1 EXCEPT !.P_Ridolfi2012_1b = 4300, !.P_Ridolfi2012_1e = 7000]
ClassRule11 == [ClassRule1 EXCEPT !.P_Ridolfi2012_1b = 4300]

\* Rows of one-row tables: every combination of equation values on three
\* compositions, and every composition on three combinations of equation values
SingleRows ==
    {MakeRow(ci, gi) : ci \in ClassInputs, gi \in {GatePass, GateLowSum, GateLowCa}}
    \cup {MakeRow(ci, gi) : ci \in {ClassRule1, ClassRule5, ClassRule11}, gi \in GateInputs}

\* Rows of the tables with several rows
CoreRows ==
    {MakeRow(ClassRule1, GatePass), MakeRow(ClassRule5, GateLowSum),
     MakeRow(ClassRule11, GateLowCa)}

\* Largest number of rows of a table
MaxRows == 2

RowSeqs ==
    {<<r>> : r \in SingleRows}
    \cup UNION {[1..n -> CoreRows] : n \in 2..MaxRows}

\* The caller's tables: rows, and whether the Sample_ID_Amp column is there
Tables == [rows : RowSeqs, Sample_ID_Amp : BOOLEAN]

Len_(tbl) == Len(tbl.rows)

----------------------------------------------------------------------------
(* Lines 395-497 as operations on the whole table.  C is Calcs_R, a        *)
(* sequence of records, one per row of the input, in the input's order.    *)

\* Line 396: P_MPa / 100, from MPa (1/2) to kbar (1/1000)
P_kbar_of_MPa(P) == IF IsNaN(P) THEN NaN ELSE (P * 1000) \div (100 * 2)

\* Lines 395-398: Calcs_R with its first columns; Input_Check and Fail Msg
\* are not columns yet
BuildCalcs(rows, P, nm) ==
    [k \in DOMAIN rows |->
        [P_kbar_calc |-> P_kbar_of_MPa(P[k]), equation |-> nm[k],
         Input_Check |-> "absent", Fail_Msg |-> "absent"]]

\* Lines 410-411: .loc on a mask creates the two columns, NaN where the
\* mask is false
FlagAPE(C, rows, P) ==
    [k \in DOMAIN C |->
        IF High_APE(rows[k], P[k])
        THEN [C[k] EXCEPT !.Input_Check = "False", !.Fail_Msg = "APE >60"]
        ELSE [C[k] EXCEPT !.Input_Check = "NaN", !.Fail_Msg = "NaN"]]

\* Lines 435-436: both columns assigned whole
ResetChecks(C) ==
    [k \in DOMAIN C |-> [C[k] EXCEPT !.Input_Check = "True", !.Fail_Msg = ""]]

\* A check that keeps the message of an earlier failing check: the fault that
\* C3_LastFailingCheckWins has to detect
Flag_FirstMessageKept(C, mask, msg) ==
    [k \in DOMAIN C |->
        IF mask[k]
        THEN [C[k] EXCEPT !.Input_Check = "False",
                          !.Fail_Msg = IF C[k].Fail_Msg = "" THEN msg ELSE C[k].Fail_Msg]
        ELSE C[k]]

\* Calcs_R.loc[mask, 'Input_Check'] = False; Calcs_R.loc[mask, 'Fail Msg'] = msg
\* for a boolean column mask
Flag(C, mask, msg) ==
    [k \in DOMAIN C |->
        IF mask[k]
        THEN [C[k] EXCEPT !.Input_Check = "False", !.Fail_Msg = msg]
        ELSE C[k]]

\* Lines 440-441
Check_Low_sum(C, rows) ==
    Flag(C, [k \in DOMAIN rows |-> Low_sum(rows[k])], "Cation oxide Total<90")
\* Lines 445-447
Check_Low_total_Recalc(C, rows) ==
    Flag(C, [k \in DOMAIN rows |-> Low_total_Recalc(rows[k])], "Recalc Total<98.5")
\* Lines 450-452
Check_High_total_Recalc(C, rows) ==
    Flag(C, [k \in DOMAIN rows |-> High_total_Recalc(rows[k])], "Recalc Total>102")
\* Lines 455-457
Check_Unbalanced_Charge(C, rows) ==
    Flag(C, [k \in DOMAIN rows |-> Unbalanced_Charge(rows[k])], "unbalanced charge (>46.5)")
\* Lines 460-462
Check_Negative_Fe2(C, rows) ==
    Flag(C, [k \in DOMAIN rows |-> Negative_Fe2(rows[k])], "unbalanced charge (Fe2<0)")
\* A gate without its magnesium-number check: the fault that
\* C21_PassIffNoGatePredicate has to detect
Check_Low_Mgno_Skipped(C, rows) == C

\* Lines 465-468
Check_Low_Mgno(C, rows) ==
    Flag(C, [k \in DOMAIN rows |-> Low_Mgno(rows[k])], "Low Mg# (<54)")
\* Lines 475-477
Check_Ca_low(C, rows) ==
    Flag(C, [k \in DOMAIN rows |-> Ca_low(rows[k])], "Low Ca (<1.5)")
\* Lines 480-482
Check_Ca_high(C, rows) ==
    Flag(C, [k \in DOMAIN rows |-> Ca_high(rows[k])], "High Ca (>2.05)")
\* Lines 485-492
Check_Low_B_Cations(C, rows) ==
    Flag(C, [k \in DOMAIN rows |-> Low_B_Cations(rows[k])], "Low B Cations")

\* The function without lines 496-497: the fault that C4_FailedRowsCleared has
\* to detect
ClearFailed_Missing(C) == C

\* Lines 496-497
ClearFailed(C) ==
    [k \in DOMAIN C |->
        IF C[k].Input_Check = "False" THEN [C[k] EXCEPT !.P_kbar_calc = NaN] ELSE C[k]]

\* Lines 353-497 on a whole table: what calculate_amp_only_press returns for
\* P_Ridolfi2021
Ridolfi2021(rows) ==
    LET P == [k \in DOMAIN rows |-> ClassifyRow(rows[k]).P]
        nm == [k \in DOMAIN rows |-> ClassifyRow(rows[k]).name]
        c0 == ResetChecks(FlagAPE(BuildCalcs(rows, P, nm), rows, P))
        c1 == Check_Low_sum(c0, rows)
        c2 == Check_Low_total_Recalc(c1, rows)
        c3 == Check_High_total_Recalc(c2, rows)
        c4 == Check_Unbalanced_Charge(c3, rows)
        c5 == Check_Negative_Fe2(c4, rows)
        c6 == Check_Low_Mgno(c5, rows)
        c7 == Check_Ca_low(c6, rows)
        c8 == Check_Ca_high(c7, rows)
        c9 == Check_Low_B_Cations(c8, rows)
    IN  ClearFailed(c9)

----------------------------------------------------------------------------
(* The dependent-variable argument (T of a barometer, P of a thermometer): *)
(* None, the string "Solve", a number, or a pandas Series of numbers.      *)

DepNone == [kind |-> "None", val |-> <<>>]
DepSolve == [kind |-> "Solve", val |-> <<>>]
DepScalar(x) == [kind |-> "scalar", val |-> <<x>>]
DepSeries(xs) == [kind |-> "Series", val |-> xs]

NoReturn == [kind |-> "none"]

\* A local name that has not been assigned
Unbound == [kind |-> "unbound"]

----------------------------------------------------------------------------
(* calculate_amp_only_press(amp_comps, equationP = "P_Ridolfi2021", T),    *)
(* statement by statement.  The loop index i runs over 1..len here and     *)
(* over 0..len-1 in the source.                                            *)

\* Lines 353-354: np.empty leaves the arrays with whatever the memory held
EmptyArrays == {[P |-> 0, name |-> ""], [P |-> NaN, name |-> "1a"]}

\* Lines 276-354: neither the registry lookup nor the P_Kraw2012 and
\* P_Mutch2016 branches apply; Sample_ID_Amp is added to the caller's table
\* when missing (309-310), the five equations are evaluated, the arrays made
R_Enter ==
    /\ pc = "call"
    /\ args.fn = "calculate_amp_only_press"
    /\ args.equationP = "P_Ridolfi2021"
    /\ amp_comps' = [amp_comps EXCEPT !.Sample_ID_Amp = TRUE]
    /\ \E g \in EmptyArrays :
          /\ P_MPa' = [k \in 1..Len_(amp_comps) |-> g.P]
          /\ name' = [k \in 1..Len_(amp_comps) |-> g.name]
    /\ i' = 1
    /\ pc' = "loop"
    /\ UNCHANGED <<args, ret, Calcs_R>>
    /\ UNCHANGED <<script, solver>>

\* A loop that reads the first sample in every iteration: the fault that
\* C18_LoopEqualsMaskedAssignments has to detect
R_Select_FirstRowRead ==
    /\ pc = "loop"
    /\ i <= Len_(amp_comps)
    /\ P_MPa' = [P_MPa EXCEPT ![i] = Select(amp_comps.rows[1]).P]
    /\ name' = [name EXCEPT ![i] = Select(amp_comps.rows[1]).name]
    /\ pc' = "low_total"
    /\ UNCHANGED <<args, ret, amp_comps, i, Calcs_R>>
    /\ UNCHANGED <<script, solver>>

\* Lines 355-388: the loop test and the if/elif chain for sample i
R_Select ==
    /\ pc = "loop"
    /\ i <= Len_(amp_comps)
    /\ P_MPa' = [P_MPa EXCEPT ![i] = Select(amp_comps.rows[i]).P]
    /\ name' = [name EXCEPT ![i] = Select(amp_comps.rows[i]).name]
    /\ pc' = "low_total"
    /\ UNCHANGED <<args, ret, amp_comps, i, Calcs_R>>
    /\ UNCHANGED <<script, solver>>

\* Lines 389-390: the end of the iteration for sample i
R_LowTotal ==
    /\ pc = "low_total"
    /\ P_MPa' = [P_MPa EXCEPT ![i] = LowTotalOverwrite(amp_comps.rows[i], P_MPa[i])]
    /\ i' = i + 1
    /\ pc' = "loop"
    /\ UNCHANGED <<args, ret, amp_comps, name, Calcs_R>>
    /\ UNCHANGED <<script, solver>>

\* Lines 395-398, once the loop has ended
R_BuildCalcs ==
    /\ pc = "loop"
    /\ i > Len_(amp_comps)
    /\ Calcs_R' = BuildCalcs(amp_comps.rows, P_MPa, name)
    /\ pc' = "APE"
    /\ UNCHANGED <<args, ret, amp_comps, i, P_MPa, name>>
    /\ UNCHANGED <<script, solver>>

\* Lines 407-411
R_APE ==
    /\ pc = "APE"
    /\ Calcs_R' = FlagAPE(Calcs_R, amp_comps.rows, P_MPa)
    /\ pc' = "reset"
    /\ UNCHANGED <<args, ret, amp_comps, i, P_MPa, name>>
    /\ UNCHANGED <<script, solver>>

\* Lines 413-436: the recalculated columns, then Fail Msg and Input_Check
R_Reset ==
    /\ pc = "reset"
    /\ Calcs_R' = ResetChecks(Calcs_R)
    /\ pc' = "Low_sum"
    /\ UNCHANGED <<args, ret, amp_comps, i, P_MPa, name>>
    /\ UNCHANGED <<script, solver>>

R_Low_sum ==
    /\ pc = "Low_sum"
    /\ Calcs_R' = Check_Low_sum(Calcs_R, amp_comps.rows)
    /\ pc' = "Low_total_Recalc"
    /\ UNCHANGED <<args, ret, amp_comps, i, P_MPa, name>>
    /\ UNCHANGED <<script, solver>>

R_Low_total_Recalc ==
    /\ pc = "Low_total_Recalc"
    /\ Calcs_R' = Check_Low_total_Recalc(Calcs_R, amp_comps.rows)
    /\ pc' = "High_total_Recalc"
    /\ UNCHANGED <<args, ret, amp_comps, i, P_MPa, name>>
    /\ UNCHANGED <<script, solver>>

R_High_total_Recalc ==
    /\ pc = "High_total_Recalc"
    /\ Calcs_R' = Check_High_total_Recalc(Calcs_R, amp_comps.rows)
    /\ pc' = "Unbalanced_Charge"
    /\ UNCHANGED <<args, ret, amp_comps, i, P_MPa, name>>
    /\ UNCHANGED <<script, solver>>

R_Unbalanced_Charge ==
    /\ pc = "Unbalanced_Charge"
    /\ Calcs_R' = Check_Unbalanced_Charge(Calcs_R, amp_comps.rows)
    /\ pc' = "Negative_Fe2"
    /\ UNCHANGED <<args, ret, amp_comps, i, P_MPa, name>>
    /\ UNCHANGED <<script, solver>>

R_Negative_Fe2 ==
    /\ pc = "Negative_Fe2"
    /\ Calcs_R' = Check_Negative_Fe2(Calcs_R, amp_comps.rows)
    /\ pc' = "Low_Mgno"
    /\ UNCHANGED <<args, ret, amp_comps, i, P_MPa, name>>
    /\ UNCHANGED <<script, solver>>

R_Low_Mgno ==
    /\ pc = "Low_Mgno"
    /\ Calcs_R' = Check_Low_Mgno(Calcs_R, amp_comps.rows)
    /\ pc' = "Ca_low"
    /\ UNCHANGED <<args, ret, amp_comps, i, P_MPa, name>>
    /\ UNCHANGED <<script, solver>>

R_Ca_low ==
    /\ pc = "Ca_low"
    /\ Calcs_R' = Check_Ca_low(Calcs_R, amp_comps.rows)
    /\ pc' = "Ca_high"
    /\ UNCHANGED <<args, ret, amp_comps, i, P_MPa, name>>
    /\ UNCHANGED <<script, solver>>

R_Ca_high ==
    /\ pc = "Ca_high"
    /\ Calcs_R' = Check_Ca_high(Calcs_R, amp_comps.rows)
    /\ pc' = "Low_B_Cations"
    /\ UNCHANGED <<args, ret, amp_comps, i, P_MPa, name>>
    /\ UNCHANGED <<script, solver>>

R_Low_B_Cations ==
    /\ pc = "Low_B_Cations"
    /\ Calcs_R' = Check_Low_B_Cations(Calcs_R, amp_comps.rows)
    /\ pc' = "clear"
    /\ UNCHANGED <<args, ret, amp_comps, i, P_MPa, name>>
    /\ UNCHANGED <<script, solver>>

\* Lines 495-497
R_Clear ==
    /\ pc = "clear"
    /\ Calcs_R' = ClearFailed(Calcs_R)
    /\ pc' = "return"
    /\ UNCHANGED <<args, ret, amp_comps, i, P_MPa, name>>
    /\ UNCHANGED <<script, solver>>

\* Lines 499-582: the columns are reordered and the table returned
R_Return ==
    /\ pc = "return"
    /\ ret' = [kind |-> "table", table |-> Calcs_R]
    /\ pc' = "done"
    /\ UNCHANGED <<args, amp_comps, i, P_MPa, name, Calcs_R>>
    /\ UNCHANGED <<script, solver>>

InitRidolfi ==
    /\ pc = "call"
    /\ args \in [fn : {"calculate_amp_only_press"}, equationP : {"P_Ridolfi2021"},
                 T : {DepNone, DepSolve}]
    /\ ret = NoReturn
    /\ amp_comps \in Tables
    /\ i = 0
    /\ P_MPa = <<>>
    /\ name = <<>>
    /\ Calcs_R = <<>>
    /\ liq_comps = DepNone
    /\ first = NoReturn /\ applied = NoReturn /\ second = NoReturn
    /\ T_func = Unbound /\ P_func = Unbound /\ P_guess = Unbound
    /\ T_K_guess = Unbound
    /\ rounds = 0 /\ evals = 0

NextRidolfi ==
    \/ R_Enter
    \/ R_Select
    \/ R_LowTotal
    \/ R_BuildCalcs
    \/ R_APE
    \/ R_Reset
    \/ R_Low_sum
    \/ R_Low_total_Recalc
    \/ R_High_total_Recalc
    \/ R_Unbalanced_Charge
    \/ R_Negative_Fe2
    \/ R_Low_Mgno
    \/ R_Ca_low
    \/ R_Ca_high
    \/ R_Low_B_Cations
    \/ R_Clear
    \/ R_Return

SpecRidolfi == InitRidolfi /\ [][NextRidolfi]_vars

----------------------------------------------------------------------------
(* The equations.  Each takes the dependent variable first (T in 1/100 K   *)
(* for a barometer, P in 1/1000 kbar for a thermometer) and then kw, the   *)
(* keyword arguments: one record with the feature columns the signature    *)
(* names, here for one row.  Barometers give 1/1000 kbar, thermometers     *)
(* 1/100 K.  Coefficients keep four significant digits.                    *)

\* 1000 * exp(x / 1000): halving or doubling down to [0, ln 2], then the
\* series to the third order
RECURSIVE ExpFix(_)
ExpFix(x) ==
    IF x > 693 THEN 2 * ExpFix(x - 693)
    ELSE IF x < 0 THEN ExpFix(x + 693) \div 2
    ELSE 1000 + x + (x * x) \div 2000 + (x * x * x) \div 6000000

\* 1000 * ln(y / 1000): powers of two, linear in between; nan for a
\* negative argument and -inf for 0 are both the non-finite value NaN
RECURSIVE LnFix(_)
LnFix(y) ==
    IF y <= 0 THEN NaN
    ELSE IF y >= 2000 THEN 693 + LnFix(y \div 2)
    ELSE IF y < 1000 THEN LnFix(2 * y) - 693
    ELSE (693 * (y - 1000)) \div 1000

\* 1000 * (q / 1000) ^ n
RECURSIVE PowFix(_, _)
PowFix(q, n) == IF n = 0 THEN 1000 ELSE (PowFix(q, n - 1) * q) \div 1000

\* Line 25; the exponent 15.12 is taken as 15, a negative base gives nan
P_Kraw2012(T, kw) ==
    LET q == (kw.Mgno_Amp * 100) \div 527 - 14 * kw.deltaNNO
    IN  IF q < 0 THEN NaN ELSE PowFix(q, 15) \div 100

\* Lines 87-88
P_Ridolfi2010(T, kw) ==
    (192 * ExpFix((1438 * 13 * kw.Al2O3_Amp_cat_23ox) \div kw.cation_sum_Si_Ca)) \div 1000

\* Line 95
P_Hammerstrom1986_eq1(T, kw) == -3920 + (503 * kw.Al2O3_Amp_cat_23ox) \div 10

\* Line 102; the exponent 2.01 is taken as 2
P_Hammerstrom1986_eq2(T, kw) ==
    (127 * kw.Al2O3_Amp_cat_23ox * kw.Al2O3_Amp_cat_23ox) \div 1000

\* Line 109
P_Hammerstrom1986_eq3(T, kw) ==
    (26 * ExpFix((148 * kw.Al2O3_Amp_cat_23ox) \div 10)) \div 100

\* A P_Hollister1987 that reads T: the fault that C8_SuppliedValueIgnored has
\* to detect
P_Hollister1987_ReadsT(T, kw) ==
    IF IsNaN(T) THEN -4760 + (564 * kw.Al2O3_Amp_cat_23ox) \div 10
    ELSE -4760 + (564 * kw.Al2O3_Amp_cat_23ox) \div 10 - T \div 100

\* Line 116
P_Hollister1987(T, kw) == -4760 + (564 * kw.Al2O3_Amp_cat_23ox) \div 10

\* A barometer that reads the temperature it is handed: the fault that
\* C23_ResultIndependentOfGuessAndRounds has to detect
P_Johnson1989_ReadsT(T, kw) ==
    IF IsNaN(T) THEN -3460 + (423 * kw.Al2O3_Amp_cat_23ox) \div 10
    ELSE -3460 + (423 * kw.Al2O3_Amp_cat_23ox) \div 10 - T \div 100

\* Line 123
P_Johnson1989(T, kw) == -3460 + (423 * kw.Al2O3_Amp_cat_23ox) \div 10

\* Lines 130-131, with u = T - 273.15 - 675 in 1/100 K
P_Anderson1995(T, kw) ==
    IF IsNaN(T) THEN NaN
    ELSE LET u == T - 94815
             b == (5300 * kw.Al2O3_Amp_cat_23ox + 53 * u) \div 1000
         IN  (476 * kw.Al2O3_Amp_cat_23ox) \div 10 - 3010 - (u * b) \div 8500

\* Line 138
P_Blundy1990(T, kw) == (503 * kw.Al2O3_Amp_cat_23ox) \div 10 - 3530

\* Line 145
P_Schmidt1992(T, kw) == -3010 + (476 * kw.Al2O3_Amp_cat_23ox) \div 10

\* Lines 645-646
T_Put2016_eq5(P, kw) ==
    27315 + 178100 - (13274 * kw.SiO2_Amp_cat_23ox) \div 100
    + (1166 * kw.TiO2_Amp_cat_23ox) \div 10 - (6941 * kw.FeOt_Amp_cat_23ox) \div 100
    + (10162 * kw.Na2O_Amp_cat_23ox) \div 100

\* Lines 654-655
T_Put2016_eq6(P, kw) ==
    IF IsNaN(P) THEN NaN
    ELSE 27315 + 168700 - (1187 * kw.SiO2_Amp_cat_23ox) \div 10
         + (13156 * kw.TiO2_Amp_cat_23ox) \div 100 - (7141 * kw.FeOt_Amp_cat_23ox) \div 100
         + (8613 * kw.Na2O_Amp_cat_23ox) \div 100 + (2244 * P) \div 10000

\* Line 662
T_Put2016_SiHbl(P, kw) == 27315 + 206100 - (1784 * kw.SiO2_Amp_cat_23ox) \div 10

\* Lines 669-671; P * 100 is P / 10 in the model's unit
T_Ridolfi2012(P, kw) ==
    IF IsNaN(P) THEN NaN
    ELSE LET ln == LnFix(P * 100)
         IN  IF IsNaN(ln) THEN NaN
             ELSE 27315 + 889968 - (6914 * kw.SiO2_Amp_13_cat) \div 10
                  - (3915 * kw.TiO2_Amp_13_cat) \div 10 - (6661 * kw.Al2O3_Amp_13_cat) \div 10
                  - (6365 * kw.FeOt_Amp_13_cat) \div 10 - (5840 * kw.MgO_Amp_13_cat) \div 10
                  - (232 * kw.CaO_Amp_13_cat) \div 10 + (800 * kw.Na2O_Amp_13_cat) \div 10
                  - (1041 * kw.K2O_Amp_13_cat) \div 10 + (79 * ln) \div 10

\* Lines 678-679
T_Put2016_eq8(P, kw) ==
    IF IsNaN(P) THEN NaN
    ELSE 27315 + 120140 - (9793 * kw.SiO2_Amp_cat_23ox) \div 100
         + (20182 * kw.TiO2_Amp_cat_23ox) \div 100 + (7285 * kw.MgO_Amp_cat_23ox) \div 100
         + (889 * kw.Na2O_Amp_cat_23ox) \div 10 + (4065 * P) \div 10000

\* The amphibole-liquid equations are logarithmic expressions of their
\* keyword arguments alone.  Their value is kept as the application itself:
\* two values are equal when the equation and the arguments are.
\* Lines 688-691
P_Put2016_eq7a(T, kw) == [body |-> "P_Put2016_eq7a", kw |-> kw]
\* Lines 699-703
P_Put2016_eq7b(T, kw) == [body |-> "P_Put2016_eq7b", kw |-> kw]
\* Lines 711-714
P_Put2016_eq7c(T, kw) == [body |-> "P_Put2016_eq7c", kw |-> kw]
\* Lines 724-728
T_Put2016_eq4b(P, kw) == [body |-> "T_Put2016_eq4b", kw |-> kw]
\* Lines 736-740
T_Put2016_eq4a_amp_sat(P, kw) == [body |-> "T_Put2016_eq4a_amp_sat", kw |-> kw]
\* Lines 749-762
T_Put2016_eq9(P, kw) == [body |-> "T_Put2016_eq9", kw |-> kw]

----------------------------------------------------------------------------
(* The registries and what inspect.signature tells about a function *)

\* Lines 151-155
Amp_only_P_funcs ==
    {"P_Ridolfi2012_1a", "P_Ridolfi2012_1b", "P_Ridolfi2012_1c", "P_Ridolfi2012_1d",
     "P_Ridolfi2012_1e", "P_Ridolfi2010", "P_Hammerstrom1986_eq1",
     "P_Hammerstrom1986_eq2", "P_Hammerstrom1986_eq3", "P_Hollister1987",
     "P_Johnson1989", "P_Blundy1990", "P_Schmidt1992", "P_Anderson1995", "P_Kraw2012"}

\* Lines 768-771; T_Put2016_eq8 is listed twice in the source's set
Amp_only_T_funcs ==
    {"T_Put2016_eq5", "T_Put2016_eq6", "T_Put2016_SiHbl", "T_Put2016_eq8",
     "T_Ridolfi2012", "T_Put2016_eq4a_amp_sat"}

\* Lines 933-935
Amp_Liq_P_funcs == {"P_Put2016_eq7a", "P_Put2016_eq7b", "P_Put2016_eq7c"}

\* A registry that also knows an amphibole-only thermometer: the fault that
\* C14_UnknownEquationRaisesFirst has to detect
Amp_Liq_T_funcs_Wide ==
    {"T_Put2016_eq4b", "T_Put2016_eq4a_amp_sat", "T_Put2016_eq9", "T_Put2016_eq5"}

\* Lines 1039-1041
Amp_Liq_T_funcs == {"T_Put2016_eq4b", "T_Put2016_eq4a_amp_sat", "T_Put2016_eq9"}

\* The names that contain 'Ridolfi2012' among those calculate_amp_only_press
\* accepts (line 323)
Ridolfi2012_names ==
    {"P_Ridolfi2012_1a", "P_Ridolfi2012_1b", "P_Ridolfi2012_1c", "P_Ridolfi2012_1d",
     "P_Ridolfi2012_1e"}

\* A signature test that finds every default to be None: the fault that
\* C12_OmittedValueRaises has to detect
DefaultIsNotNone_Never(func) == FALSE

\* sig.parameters['T'].default is not None (lines 283, 805, 983, 1083): the
\* first parameter is declared without a default (lines 126, 649, 664, 673)
DefaultIsNotNone(func) ==
    func \in {"P_Anderson1995", "T_Put2016_eq6", "T_Ridolfi2012", "T_Put2016_eq8"}

Cat13Names ==
    {"SiO2_Amp_13_cat", "TiO2_Amp_13_cat", "FeOt_Amp_13_cat", "MgO_Amp_13_cat",
     "CaO_Amp_13_cat", "K2O_Amp_13_cat", "Na2O_Amp_13_cat", "Al2O3_Amp_13_cat"}

\* The KEYWORD_ONLY parameters of a function's signature
KeywordOnly(func) ==
    CASE func = "P_Kraw2012" -> {"Mgno_Amp", "deltaNNO"}
      [] func \in Ridolfi2012_names \cup {"T_Ridolfi2012"} -> Cat13Names
      [] func = "P_Ridolfi2010" -> {"Al2O3_Amp_cat_23ox", "cation_sum_Si_Ca"}
      [] func \in {"P_Hammerstrom1986_eq1", "P_Hammerstrom1986_eq2",
                   "P_Hammerstrom1986_eq3", "P_Hollister1987", "P_Johnson1989",
                   "P_Anderson1995", "P_Blundy1990", "P_Schmidt1992"} ->
            {"Al2O3_Amp_cat_23ox"}
      [] func \in {"T_Put2016_eq5", "T_Put2016_eq6"} ->
            {"SiO2_Amp_cat_23ox", "TiO2_Amp_cat_23ox", "FeOt_Amp_cat_23ox",
             "Na2O_Amp_cat_23ox"}
      [] func = "T_Put2016_SiHbl" -> {"SiO2_Amp_cat_23ox"}
      [] func = "T_Put2016_eq8" ->
            {"SiO2_Amp_cat_23ox", "TiO2_Amp_cat_23ox", "MgO_Amp_cat_23ox",
             "Na2O_Amp_cat_23ox"}
      [] func = "P_Put2016_eq7a" ->
            {"Al2O3_Amp_cat_23ox", "Na2O_Amp_cat_23ox", "K2O_Amp_cat_23ox",
             "Al2O3_Liq_mol_frac_hyd", "Na2O_Liq_mol_frac_hyd",
             "H2O_Liq_mol_frac_hyd", "P2O5_Liq_mol_frac_hyd"}
      [] func = "P_Put2016_eq7b" ->
            {"Al2O3_Liq_mol_frac_hyd", "P2O5_Liq_mol_frac_hyd", "Al2O3_Amp_cat_23ox",
             "SiO2_Liq_mol_frac_hyd", "Na2O_Liq_mol_frac_hyd", "K2O_Liq_mol_frac_hyd",
             "CaO_Liq_mol_frac_hyd"}
      [] func = "P_Put2016_eq7c" ->
            {"Al2O3_Amp_cat_23ox", "K2O_Amp_cat_23ox", "P2O5_Liq_mol_frac",
             "Al2O3_Liq_mol_frac", "Na2O_Amp_cat_23ox", "Na2O_Liq_mol_frac"}
      [] func = "T_Put2016_eq4b" ->
            {"H2O_Liq_mol_frac_hyd", "FeOt_Amp_cat_23ox", "FeOt_Liq_mol_frac_hyd",
             "MgO_Liq_mol_frac_hyd", "MnO_Liq_mol_frac_hyd", "Al2O3_Liq_mol_frac_hyd",
             "TiO2_Amp_cat_23ox", "TiO2_Liq_mol_frac_hyd"}
      [] func = "T_Put2016_eq4a_amp_sat" ->
            {"FeOt_Liq_mol_frac_hyd", "TiO2_Liq_mol_frac_hyd", "Al2O3_Liq_mol_frac_hyd",
             "MnO_Liq_mol_frac_hyd", "MgO_Liq_mol_frac_hyd", "Na2O_Amp_cat_23ox",
             "Na2O_Liq_mol_frac_hyd"}
      [] func = "T_Put2016_eq9" ->
            {"SiO2_Amp_cat_23ox", "TiO2_Amp_cat_23ox", "MgO_Amp_cat_23ox",
             "FeOt_Amp_cat_23ox", "Na2O_Amp_cat_23ox", "FeOt_Liq_mol_frac_hyd",
             "Al2O3_Amp_cat_23ox", "Al2O3_Liq_mol_frac_hyd", "K2O_Amp_cat_23ox",
             "CaO_Amp_cat_23ox", "Na2O_Liq_mol_frac_hyd", "K2O_Liq_mol_frac_hyd"}

\* func(x, **kw) on one row, for the functions that reach a call with
\* keyword arguments taken from a feature table
Call(func, x, kw) ==
    CASE func = "P_Ridolfi2010" -> P_Ridolfi2010(x, kw)
      [] func = "P_Hammerstrom1986_eq1" -> P_Hammerstrom1986_eq1(x, kw)
      [] func = "P_Hammerstrom1986_eq2" -> P_Hammerstrom1986_eq2(x, kw)
      [] func = "P_Hammerstrom1986_eq3" -> P_Hammerstrom1986_eq3(x, kw)
      [] func = "P_Hollister1987" -> P_Hollister1987(x, kw)
      [] func = "P_Johnson1989" -> P_Johnson1989(x, kw)
      [] func = "P_Anderson1995" -> P_Anderson1995(x, kw)
      [] func = "P_Blundy1990" -> P_Blundy1990(x, kw)
      [] func = "P_Schmidt1992" -> P_Schmidt1992(x, kw)
      [] func = "T_Put2016_eq5" -> T_Put2016_eq5(x, kw)
      [] func = "T_Put2016_eq6" -> T_Put2016_eq6(x, kw)
      [] func = "T_Put2016_SiHbl" -> T_Put2016_SiHbl(x, kw)
      [] func = "T_Ridolfi2012" -> T_Ridolfi2012(x, kw)
      [] func = "T_Put2016_eq8" -> T_Put2016_eq8(x, kw)
      [] func = "P_Put2016_eq7a" -> P_Put2016_eq7a(x, kw)
      [] func = "P_Put2016_eq7b" -> P_Put2016_eq7b(x, kw)
      [] func = "P_Put2016_eq7c" -> P_Put2016_eq7c(x, kw)
      [] func = "T_Put2016_eq4b" -> T_Put2016_eq4b(x, kw)
      [] func = "T_Put2016_eq4a_amp_sat" -> T_Put2016_eq4a_amp_sat(x, kw)
      [] func = "T_Put2016_eq9" -> T_Put2016_eq9(x, kw)

----------------------------------------------------------------------------
(* Values a call produces *)

Series(xs) == [kind |-> "Series", val |-> xs]
Partial(func, kwargs) == [kind |-> "partial", func |-> func, kwargs |-> kwargs]
DataFrame(t) == [kind |-> "table", table |-> t]
\* An exception, by its class and the line that raises it
Raise(class, line) == [kind |-> "error", class |-> class, line |-> line]

IsConcrete(dep) == dep.kind \in {"scalar", "Series"}

\* Element k of the dependent variable as an equation's row sees it: a
\* scalar broadcasts, a Series is read by position, and None only reaches
\* equations that do not read the argument
Elem(dep, k) ==
    CASE dep.kind = "scalar" -> dep.val[1]
      [] dep.kind = "Series" -> IF k <= Len(dep.val) THEN dep.val[k] ELSE NaN
      [] OTHER -> NaN

\* func(dep, **kwargs) with Series keyword arguments (lines 614, 617).  A
\* function that reads a Series dep combines it with the keyword columns on
\* the union of the two default indexes: NaN where either has no element.
Evaluate(func, dep, kwargs) ==
    LET n == IF dep.kind = "Series" /\ DefaultIsNotNone(func) /\ Len(dep.val) > Len(kwargs)
             THEN Len(dep.val) ELSE Len(kwargs)
    IN  [k \in 1..n |->
            IF k > Len(kwargs) THEN NaN ELSE Call(func, Elem(dep, k), kwargs[k])]

\* A partial that loses its positional argument: the fault that
\* C6_DeferredEquivalence has to detect
CallPartial_ArgumentDropped(f, dep) == Series(Evaluate(f.func, DepNone, f.kwargs))

\* Calling partial(func, **kwargs) with one positional argument
CallPartial(f, dep) == Series(Evaluate(f.func, dep, f.kwargs))

----------------------------------------------------------------------------
(* Feature tables and keyword arguments *)

\* calculate_23oxygens_amphibole(amp_comps) (lines 607, 830, 1003, 1101)
Ox23(tbl) == [k \in DOMAIN tbl.rows |-> tbl.rows[k].ox23]

\* calculate_13cations_amphibole_ridolfi(amp_comps) (lines 325, 822)
Cat13(tbl) == [k \in DOMAIN tbl.rows |-> tbl.rows[k].cat13]

\* A row of a table that has no row at that position after pd.concat
Missing(rec) == [nm \in DOMAIN rec |-> NaN]

\* Lines 1003-1009 and 1101-1104: the 23-oxygen columns of the amphiboles
\* next to the hydrous and anhydrous cation fractions of the liquids, row by
\* row on the union of the two indexes
Combo_liq_amps(tbl, liq) ==
    LET n == IF Len(liq.rows) > Len(tbl.rows) THEN Len(liq.rows) ELSE Len(tbl.rows)
        a(k) == IF k <= Len(tbl.rows) THEN tbl.rows[k].ox23
                ELSE Missing(tbl.rows[1].ox23)
        h(k) == IF k <= Len(liq.rows) THEN liq.rows[k].hyd ELSE Missing(liq.rows[1].hyd)
        d(k) == IF k <= Len(liq.rows) THEN liq.rows[k].an ELSE Missing(liq.rows[1].an)
    IN  [k \in 1..n |-> a(k) @@ h(k) @@ d(k)]

\* Whether features[name] exists for every keyword-only name of func; the
\* dictionary comprehension raises KeyError otherwise
HasColumns(features, func) == KeywordOnly(func) \subseteq DOMAIN features[1]

\* kwargs = {name: features[name] for each keyword-only name}, row by row
Kwargs(func, features) ==
    [k \in DOMAIN features |-> [nm \in KeywordOnly(func) |-> features[k][nm]]]

\* A last step that evaluates the function when it gets "Solve": the fault
\* that C7_DeferredExactlyForSolve has to detect
EvaluateStep_SolveEvaluates(func, dep, kwargs) == Series(Evaluate(func, dep, kwargs))

\* Lines 610-617, 835-842, 1013-1020, 1109-1116: the last step of every
\* dispatcher, for T or P being "Solve", None, or a number or Series
EvaluateStep(func, dep, kwargs) ==
    CASE dep.kind = "Solve" -> Partial(func, kwargs)
      [] dep.kind = "None" -> Series(Evaluate(func, dep, kwargs))
      [] OTHER -> Series(Evaluate(func, dep, kwargs))

\* Line 301, with the molar masses as 40.3 and 71.8
Mgno_Amp(r) ==
    LET mg == (r.MgO_Amp * 718) \div 100
        fe == (r.FeOt_Amp * 403) \div 100
    IN  (10000 * mg) \div (mg + fe)

\* Lines 301-305: df_out of the P_Kraw2012 branch
Kraw2012(rows, deltaNNO) ==
    [k \in DOMAIN rows |->
        [PH2O_kbar_calc |-> P_Kraw2012(NaN, [Mgno_Amp |-> Mgno_Amp(rows[k]),
                                             deltaNNO |-> deltaNNO.val[1]]),
         Mgno_Amp |-> Mgno_Amp(rows[k])]]

\* Lines 313-320: final_cat of the P_Mutch2016 branch
Mutch2016(rows) ==
    [k \in DOMAIN rows |->
        LET Al_tot == rows[k].mutch.Al_T + rows[k].mutch.Al_C
        IN  [P_kbar_calc |-> 500 + (331 * Al_tot) \div 100 + (995 * Al_tot * Al_tot) \div 10000,
             Al_tot |-> Al_tot]]

----------------------------------------------------------------------------
(* The four dispatchers, each as the outcome of one whole call: what it    *)
(* returns or raises (out) and the caller's amphibole table afterwards.    *)

Outcome(out, tbl) == [out |-> out, amp_comps |-> tbl]

\* Lines 237-619
calculate_amp_only_press(tbl, equationP, T, deltaNNO) ==
    LET registry == equationP # "P_Ridolfi2021" /\ equationP # "P_Mutch2016"
        with_id == [tbl EXCEPT !.Sample_ID_Amp = TRUE]
    IN  IF registry /\ equationP \notin Amp_only_P_funcs
        THEN Outcome(Raise("ValueError", 280), tbl)
        ELSE IF registry /\ DefaultIsNotNone(equationP) /\ T.kind = "None"
        THEN Outcome(Raise("ValueError", 285), tbl)
        ELSE IF registry /\ T.kind = "Series" /\ Len(T.val) # Len_(tbl)
        THEN Outcome(Raise("ValueError", 293), tbl)
        ELSE IF equationP = "P_Kraw2012"
        THEN IF deltaNNO.kind = "None"
             THEN Outcome(Raise("ValueError", 300), tbl)
             ELSE Outcome(DataFrame(Kraw2012(tbl.rows, deltaNNO)), tbl)
        ELSE IF equationP = "P_Mutch2016"
        THEN Outcome(DataFrame(Mutch2016(tbl.rows)), with_id)
        ELSE IF equationP = "P_Ridolfi2021"
        THEN Outcome(DataFrame(Ridolfi2021(tbl.rows)), with_id)
        ELSE IF equationP \in Ridolfi2012_names
        THEN Outcome(Raise("UnboundLocalError", 396), with_id)
        ELSE Outcome(EvaluateStep(equationP, T, Kwargs(equationP, Ox23(with_id))),
                     with_id)

\* A dispatcher that gives a column it does not find as NaN instead of
\* failing: the fault that C15_MissingFeatureRaises has to detect
calculate_amp_only_temp_MissingAsNaN(tbl, equationT, P) ==
    IF equationT \notin Amp_only_T_funcs
    THEN Outcome(Raise("ValueError", 802), tbl)
    ELSE Outcome(Series([k \in DOMAIN tbl.rows |-> NaN]), tbl)

\* Lines 776-844
calculate_amp_only_temp(tbl, equationT, P) ==
    IF equationT \notin Amp_only_T_funcs
    THEN Outcome(Raise("ValueError", 802), tbl)
    ELSE IF DefaultIsNotNone(equationT) /\ P.kind = "None"
    THEN Outcome(Raise("ValueError", 807), tbl)
    ELSE IF P.kind = "Series" /\ Len(P.val) # Len_(tbl)
    THEN Outcome(Raise("ValueError", 815), tbl)
    ELSE IF equationT = "T_Ridolfi2012"
    THEN IF P.kind = "None"
         THEN Outcome(Raise("Exception", 820), tbl)
         ELSE IF ~tbl.Sample_ID_Amp
         THEN Outcome(Raise("KeyError", 823), tbl)
         ELSE Outcome(EvaluateStep(equationT, P, Kwargs(equationT, Cat13(tbl))), tbl)
    ELSE IF ~HasColumns(Ox23(tbl), equationT)
    THEN Outcome(Raise("KeyError", 831), tbl)
    ELSE Outcome(EvaluateStep(equationT, P, Kwargs(equationT, Ox23(tbl))), tbl)

\* Lines 938-1036, with meltmatch = None, H2O_Liq = None, eq_tests = False
calculate_amp_liq_press(tbl, liq, equationP, T) ==
    IF equationP \notin Amp_Liq_P_funcs
    THEN Outcome(Raise("ValueError", 980), tbl)
    ELSE IF DefaultIsNotNone(equationP) /\ T.kind = "None"
    THEN Outcome(Raise("ValueError", 985), tbl)
    ELSE IF T.kind = "Series" /\ Len(T.val) # Len(liq.rows)
    THEN Outcome(Raise("ValueError", 993), tbl)
    ELSE IF ~HasColumns(Combo_liq_amps(tbl, liq), equationP)
    THEN Outcome(Raise("KeyError", 1012), tbl)
    ELSE Outcome(EvaluateStep(equationP, T, Kwargs(equationP, Combo_liq_amps(tbl, liq))),
                 tbl)

\* Lines 1043-1134, with H2O_Liq = None, eq_tests = False
calculate_amp_liq_temp(tbl, liq, equationT, P) ==
    IF equationT \notin Amp_Liq_T_funcs
    THEN Outcome(Raise("ValueError", 1080), tbl)
    ELSE IF DefaultIsNotNone(equationT) /\ P.kind = "None"
    THEN Outcome(Raise("ValueError", 1085), tbl)
    ELSE IF P.kind = "Series" /\ Len(P.val) # Len(liq.rows)
    THEN Outcome(Raise("ValueError", 1093), tbl)
    ELSE IF ~HasColumns(Combo_liq_amps(tbl, liq), equationT)
    THEN Outcome(Raise("KeyError", 1105), tbl)
    ELSE Outcome(EvaluateStep(equationT, P, Kwargs(equationT, Combo_liq_amps(tbl, liq))),
                 tbl)

----------------------------------------------------------------------------
(* A caller's script: two dispatches of one equation on the same tables,   *)
(* and the partial of the first applied to a value in between.             *)

\* Two amphiboles that differ in Si, Al and the equation values
DispatchRows ==
    {MakeRow(ClassRule1, GatePass),
     MakeRow(ClassRule11, [GatePass EXCEPT !.Si = 725, !.Al = 220])}

DispatchTables ==
    [rows : UNION {[1..n -> DispatchRows] : n \in 1..MaxRows}, Sample_ID_Amp : BOOLEAN]

\* One liquid: the columns of calculate_hydrous_cat_fractions_liquid and of
\* calculate_anhydrous_cat_fractions_liquid that the equations name
LiqRow ==
    [hyd |-> [SiO2_Liq_mol_frac_hyd |-> 55, TiO2_Liq_mol_frac_hyd |-> 1,
              Al2O3_Liq_mol_frac_hyd |-> 15, FeOt_Liq_mol_frac_hyd |-> 5,
              MnO_Liq_mol_frac_hyd |-> 1, MgO_Liq_mol_frac_hyd |-> 4,
              CaO_Liq_mol_frac_hyd |-> 6, Na2O_Liq_mol_frac_hyd |-> 4,
              K2O_Liq_mol_frac_hyd |-> 2, P2O5_Liq_mol_frac_hyd |-> 1,
              H2O_Liq_mol_frac_hyd |-> 6],
     an |-> [P2O5_Liq_mol_frac |-> 1, Al2O3_Liq_mol_frac |-> 16,
             Na2O_Liq_mol_frac |-> 5]]

LiqTables == [rows : UNION {[1..n -> {LiqRow}] : n \in 1..MaxRows}]

\* Forms of the dependent argument: T in 1/100 K for a barometer, P in
\* 1/1000 kbar for a thermometer
DepValue(fn, k) ==
    IF fn \in {"calculate_amp_only_press", "calculate_amp_liq_press"}
    THEN 100000 + 10000 * k
    ELSE 1000 * k

ConcreteDeps(fn) ==
    {DepScalar(DepValue(fn, 3))}
    \cup {DepSeries([k \in 1..n |-> DepValue(fn, k)]) : n \in 1..MaxRows}

Deps(fn) == {DepNone, DepSolve} \cup ConcreteDeps(fn)

\* What the script keeps of a dispatch: the argument, what came back, and
\* the caller's amphibole table as it was before and as it is after the call
CallRecord(dep, out, before, after) ==
    [kind |-> "call", dep |-> dep, out |-> out, before |-> before, after |-> after]

\* The call at the script's position has ended with outcome o
Returned(dep, o) ==
    /\ ret' = o.out
    /\ amp_comps' = o.amp_comps
    /\ IF pc = "first"
       THEN first' = CallRecord(dep, o.out, amp_comps, o.amp_comps) /\ second' = second /\ pc' = "between"
       ELSE second' = CallRecord(dep, o.out, amp_comps, o.amp_comps) /\ first' = first /\ pc' = "done"
    /\ UNCHANGED <<args, liq_comps, applied, i, P_MPa, name, Calcs_R, solver>>

D_amp_only_press ==
    /\ pc \in {"first", "between", "other"}
    /\ args.fn = "calculate_amp_only_press"
    /\ \E T \in Deps(args.fn) :
          Returned(T, calculate_amp_only_press(amp_comps, args.equation, T, args.deltaNNO))

D_amp_only_temp ==
    /\ pc \in {"first", "between", "other"}
    /\ args.fn = "calculate_amp_only_temp"
    /\ \E P \in Deps(args.fn) :
          Returned(P, calculate_amp_only_temp(amp_comps, args.equation, P))

D_amp_liq_press ==
    /\ pc \in {"first", "between", "other"}
    /\ args.fn = "calculate_amp_liq_press"
    /\ \E T \in Deps(args.fn) :
          Returned(T, calculate_amp_liq_press(amp_comps, liq_comps, args.equation, T))

D_amp_liq_temp ==
    /\ pc \in {"first", "between", "other"}
    /\ args.fn = "calculate_amp_liq_temp"
    /\ \E P \in Deps(args.fn) :
          Returned(P, calculate_amp_liq_temp(amp_comps, liq_comps, args.equation, P))

\* Between its two dispatches the caller makes another call on the same
\* amphibole table, calculate_amp_only_press with a barometer, and drops
\* what it returns
D_Other ==
    /\ pc = "between"
    /\ \E equationP \in {"P_Ridolfi2021", "P_Hollister1987"} :
          LET o == calculate_amp_only_press(amp_comps, equationP, DepNone, DepNone)
          IN  ret' = o.out /\ amp_comps' = o.amp_comps
    /\ pc' = "other"
    /\ UNCHANGED <<args, liq_comps, first, applied, second,
                   i, P_MPa, name, Calcs_R, solver>>

\* The caller applies the partial it got from the first call
D_Apply ==
    /\ pc = "between"
    /\ first.out.kind = "partial"
    /\ applied = NoReturn
    /\ \E x \in ConcreteDeps(args.fn) :
          applied' = [kind |-> "applied", x |-> x, out |-> CallPartial(first.out, x)]
    /\ UNCHANGED <<pc, args, ret, amp_comps, liq_comps, first, second,
                   i, P_MPa, name, Calcs_R, solver>>

\* The equations a script may name: those of the function's registry, the
\* two that calculate_amp_only_press accepts besides, and one name the
\* function does not know
Sessions ==
    [fn : {"calculate_amp_only_press"},
     equation : Amp_only_P_funcs \cup {"P_Ridolfi2021", "P_Mutch2016", "T_Put2016_eq5"},
     deltaNNO : {DepNone}]
    \cup [fn : {"calculate_amp_only_press"}, equation : {"P_Kraw2012"},
          deltaNNO : {DepScalar(1)}]
    \cup [fn : {"calculate_amp_only_temp"},
          equation : Amp_only_T_funcs \cup {"P_Hollister1987"}, deltaNNO : {DepNone}]
    \cup [fn : {"calculate_amp_liq_press"},
          equation : Amp_Liq_P_funcs \cup {"P_Hollister1987"}, deltaNNO : {DepNone}]
    \cup [fn : {"calculate_amp_liq_temp"},
          equation : Amp_Liq_T_funcs \cup {"T_Put2016_eq5"}, deltaNNO : {DepNone}]

InitDispatch ==
    /\ pc = "first"
    /\ args \in Sessions
    /\ ret = NoReturn
    /\ amp_comps \in DispatchTables
    /\ liq_comps \in IF args.fn \in {"calculate_amp_liq_press", "calculate_amp_liq_temp"}
                     THEN LiqTables ELSE {DepNone}
    /\ i = 0 /\ P_MPa = <<>> /\ name = <<>> /\ Calcs_R = <<>>
    /\ first = NoReturn /\ applied = NoReturn /\ second = NoReturn
    /\ T_func = Unbound /\ P_func = Unbound /\ P_guess = Unbound
    /\ T_K_guess = Unbound
    /\ rounds = 0 /\ evals = 0

NextDispatch ==
    \/ D_amp_only_press
    \/ D_amp_only_temp
    \/ D_amp_liq_press
    \/ D_amp_liq_temp
    \/ D_Other
    \/ D_Apply

SpecDispatch == InitDispatch /\ [][NextDispatch]_vars

----------------------------------------------------------------------------
(* calculate_amp_only_press_temp (lines 849-930) and                       *)
(* calculate_amp_liq_press_temp (lines 1139-1234, with H2O_Liq = None and  *)
(* eq_tests = False), statement by statement.  The two functions share the *)
(* text of their branches and of their loop.                               *)

\* Most iterations a caller asks for
MaxIter == 3

\* isinstance(x, pd.Series) and isinstance(x, partial)
IsSeries(x) == x.kind = "Series"
IsPartial(x) == x.kind = "partial"

\* Line 909: the P_kbar_calc column of the table returned for P_Ridolfi2021
\* or P_Mutch2016
Column_P_kbar_calc(out) ==
    Series([k \in DOMAIN out.table |-> out.table[k].P_kbar_calc])

\* An exception of a callee ends the solver with that exception
Propagate(o) ==
    /\ ret' = o.out
    /\ pc' = "done"

\* Line 905
S_amp_only_T_func ==
    /\ pc = "solve"
    /\ args.fn = "calculate_amp_only_press_temp"
    /\ LET o == calculate_amp_only_temp(amp_comps, args.equationT, DepSolve)
       IN  IF o.out.kind = "error"
           THEN Propagate(o) /\ T_func' = T_func
           ELSE T_func' = o.out /\ pc' = "P_func" /\ ret' = ret
    /\ UNCHANGED <<args, amp_comps, i, P_MPa, name, Calcs_R, script>>
    /\ UNCHANGED <<P_func, P_guess, T_K_guess, rounds, evals>>

\* Lines 906-909
S_amp_only_P_func ==
    /\ pc = "P_func"
    /\ args.fn = "calculate_amp_only_press_temp"
    /\ LET o == calculate_amp_only_press(amp_comps, args.equationP, DepSolve, DepNone)
       IN  /\ amp_comps' = o.amp_comps
           /\ IF o.out.kind = "error"
              THEN Propagate(o) /\ P_func' = P_func
              ELSE /\ P_func' = IF args.equationP # "P_Ridolfi2021"
                                   /\ args.equationP # "P_Mutch2016"
                                THEN o.out ELSE Column_P_kbar_calc(o.out)
                   /\ pc' = "branches" /\ ret' = ret
    /\ UNCHANGED <<args, i, P_MPa, name, Calcs_R, script>>
    /\ UNCHANGED <<T_func, P_guess, T_K_guess, rounds, evals>>

\* Lines 1184-1189; liq_comps_c is a copy of liq_comps
S_amp_liq_T_func ==
    /\ pc = "solve"
    /\ args.fn = "calculate_amp_liq_press_temp"
    /\ LET o == calculate_amp_liq_temp(amp_comps, liq_comps, args.equationT, DepSolve)
       IN  IF o.out.kind = "error"
           THEN Propagate(o) /\ T_func' = T_func
           ELSE T_func' = o.out /\ pc' = "P_func" /\ ret' = ret
    /\ UNCHANGED <<args, amp_comps, i, P_MPa, name, Calcs_R, script>>
    /\ UNCHANGED <<P_func, P_guess, T_K_guess, rounds, evals>>

\* Lines 1191-1192
S_amp_liq_P_func ==
    /\ pc = "P_func"
    /\ args.fn = "calculate_amp_liq_press_temp"
    /\ LET o == calculate_amp_liq_press(amp_comps, liq_comps, args.equationP, DepSolve)
       IN  IF o.out.kind = "error"
           THEN Propagate(o) /\ P_func' = P_func
           ELSE P_func' = o.out /\ pc' = "branches" /\ ret' = ret
    /\ UNCHANGED <<args, amp_comps, i, P_MPa, name, Calcs_R, script>>
    /\ UNCHANGED <<T_func, P_guess, T_K_guess, rounds, evals>>

\* The conditions of lines 910, 914, 918 and 922 (1194, 1198, 1202, 1206)
BothSeries(P, T) == IsSeries(T) /\ IsSeries(P)
SeriesT_PartialP(P, T) == IsSeries(T) /\ IsPartial(P)
\* A third if that is never taken: the fault that C10_ShortCircuit has to
\* detect
SeriesP_PartialT_Never(P, T) == FALSE
SeriesP_PartialT(P, T) == IsSeries(P) /\ IsPartial(T)
\* A loop that is never entered: the fault that C11_DeferredPairLoops has to
\* detect
BothPartial_Never(P, T) == FALSE
BothPartial(P, T) == IsPartial(P) /\ IsPartial(T)

\* Lines 910-920 (1194-1204): the three ifs that do not loop.  At most one
\* of the conditions holds, so the three assignments are one choice.
S_Branches ==
    /\ pc = "branches"
    /\ IF BothSeries(P_func, T_func)
       THEN P_guess' = P_func /\ T_K_guess' = T_func /\ evals' = evals
       ELSE IF SeriesT_PartialP(P_func, T_func)
       THEN P_guess' = CallPartial(P_func, T_func) /\ T_K_guess' = T_func
            /\ evals' = evals + 1
       ELSE IF SeriesP_PartialT(P_func, T_func)
       THEN T_K_guess' = CallPartial(T_func, P_func) /\ P_guess' = P_func
            /\ evals' = evals + 1
       ELSE UNCHANGED <<P_guess, T_K_guess, evals>>
    /\ pc' = "loop"
    /\ UNCHANGED <<args, ret, amp_comps, i, P_MPa, name, Calcs_R, script>>
    /\ UNCHANGED <<T_func, P_func, rounds>>

\* A loop that stops as soon as an iteration changes nothing: the fault
\* that C9_ExactlyIterationsRounds has to detect
S_Round_ExitOnConvergence ==
    /\ pc = "loop"
    /\ BothPartial(P_func, T_func)
    /\ rounds < args.iterations
    /\ P_guess' = CallPartial(P_func, T_K_guess)
    /\ T_K_guess' = CallPartial(T_func, P_guess')
    /\ rounds' = IF P_guess' = P_guess /\ T_K_guess' = T_K_guess
                 THEN args.iterations ELSE rounds + 1
    /\ evals' = evals + 2
    /\ UNCHANGED <<pc, args, ret, amp_comps, i, P_MPa, name, Calcs_R, script>>
    /\ UNCHANGED <<T_func, P_func>>

\* A round that evaluates the temperature at the pressure of the round
\* before: the fault that C22_TemperatureAtReturnedPressure has to detect
S_Round_StalePressure ==
    /\ pc = "loop"
    /\ BothPartial(P_func, T_func)
    /\ rounds < args.iterations
    /\ P_guess' = CallPartial(P_func, T_K_guess)
    /\ T_K_guess' = CallPartial(T_func, P_guess)
    /\ rounds' = rounds + 1
    /\ evals' = evals + 2
    /\ UNCHANGED <<pc, args, ret, amp_comps, i, P_MPa, name, Calcs_R, script>>
    /\ UNCHANGED <<T_func, P_func>>

\* Lines 922-926 (1206-1210): one iteration of the loop
S_Round ==
    /\ pc = "loop"
    /\ BothPartial(P_func, T_func)
    /\ rounds < args.iterations
    /\ P_guess' = CallPartial(P_func, T_K_guess)
    /\ T_K_guess' = CallPartial(T_func, P_guess')
    /\ rounds' = rounds + 1
    /\ evals' = evals + 2
    /\ UNCHANGED <<pc, args, ret, amp_comps, i, P_MPa, name, Calcs_R, script>>
    /\ UNCHANGED <<T_func, P_func>>

\* A last line that builds the table from whatever is there, an undefined
\* pressure included: the fault that C24_ZeroIterationsRaises has to detect
PT_out_UndefinedPressureReturned ==
    IF P_guess = Unbound
    THEN DataFrame([k \in 1..1 |-> [P_kbar_calc |-> NaN, T_K_calc |-> Elem(T_K_guess, k)]])
    ELSE DataFrame([k \in DOMAIN P_guess.val |->
                       [P_kbar_calc |-> P_guess.val[k], T_K_calc |-> Elem(T_K_guess, k)]])

\* Line 929 (1213): a Series and a number or a Series make a table, a name
\* that was never assigned raises
PT_out ==
    IF P_guess = Unbound THEN Raise("UnboundLocalError", 929)
    ELSE DataFrame([k \in DOMAIN P_guess.val |->
                       [P_kbar_calc |-> P_guess.val[k], T_K_calc |-> Elem(T_K_guess, k)]])

\* Lines 929-930 (1213-1216), once the loop is over or was not entered
S_Return ==
    /\ pc = "loop"
    /\ ~(BothPartial(P_func, T_func) /\ rounds < args.iterations)
    /\ ret' = PT_out
    /\ pc' = "done"
    /\ UNCHANGED <<args, amp_comps, i, P_MPa, name, Calcs_R, script, solver>>

SolveArgs ==
    [fn : {"calculate_amp_only_press_temp"},
     equationT : Amp_only_T_funcs,
     equationP : Amp_only_P_funcs \cup {"P_Ridolfi2021", "P_Mutch2016"},
     iterations : 0..MaxIter, T_K_guess : {130000, 100000}]
    \cup [fn : {"calculate_amp_liq_press_temp"},
          equationT : Amp_Liq_T_funcs, equationP : Amp_Liq_P_funcs,
          iterations : 0..MaxIter, T_K_guess : {130000, 100000}]

InitSolve ==
    /\ pc = "solve"
    /\ args \in SolveArgs
    /\ ret = NoReturn
    /\ amp_comps \in DispatchTables
    /\ liq_comps \in IF args.fn = "calculate_amp_liq_press_temp"
                     THEN LiqTables ELSE {DepNone}
    /\ i = 0 /\ P_MPa = <<>> /\ name = <<>> /\ Calcs_R = <<>>
    /\ first = NoReturn /\ applied = NoReturn /\ second = NoReturn
    /\ T_func = Unbound /\ P_func = Unbound /\ P_guess = Unbound
    /\ T_K_guess = DepScalar(args.T_K_guess)
    /\ rounds = 0 /\ evals = 0

NextSolve ==
    \/ S_amp_only_T_func
    \/ S_amp_only_P_func
    \/ S_amp_liq_T_func
    \/ S_amp_liq_P_func
    \/ S_Branches
    \/ S_Round
    \/ S_Return

SpecSolve == InitSolve /\ [][NextSolve]_vars

----------------------------------------------------------------------------
(*                              Properties                                 *)
----------------------------------------------------------------------------

\* Positions of calculate_amp_only_press at which Calcs_R exists
CalcsPositions ==
    {"APE", "reset", "Low_sum", "Low_total_Recalc", "High_total_Recalc",
     "Unbalanced_Charge", "Negative_Fe2", "Low_Mgno", "Ca_low", "Ca_high",
     "Low_B_Cations", "clear", "return", "done"}

\* The eleven rules as the specification lists them: condition and selected
\* value, with x = (a - e) / a for a > 0 and delta = d - b
C1_Rules(r) ==
    LET a == P_MPa_1a(r)
        b == P_MPa_1b(r)
        c == P_MPa_1c(r)
        d == P_MPa_1d(r)
        e == P_MPa_1e(r)
    IN  << [c |-> b < MPa(335), v |-> b],
           [c |-> b < MPa(399), v |-> (b + c) \div 2],
           [c |-> c < MPa(415), v |-> c],
           [c |-> d < MPa(470), v |-> c],
           [c |-> (a - e) * 100 > 22 * a, v |-> (c + d) \div 2],
           [c |-> d - b > MPa(350), v |-> e],
           [c |-> d - b > MPa(210), v |-> d],
           [c |-> d - b < MPa(75), v |-> c],
           [c |-> (a - e) * 100 < (-20) * a, v |-> (b + c) \div 2],
           [c |-> (a - e) * 100 > 5 * a, v |-> (c + d) \div 2],
           [c |-> TRUE, v |-> a] >>

\* The index of the first rule of C1_Rules whose condition holds
C1_First(r) ==
    CHOOSE k \in 1..11 :
        /\ C1_Rules(r)[k].c
        /\ \A j \in 1..(k - 1) : ~C1_Rules(r)[j].c

\* C1: for every sample the classifier stores the value of the first rule
\* that matches in the documented order: right after the if/elif chain
\* P_MPa[i] is that value, whatever later conditions also hold, and it stays
\* that value for every sample whose total is not below 90.
C1_FirstMatchWins ==
    \A k \in 1..Len(P_MPa) :
        LET r == amp_comps.rows[k]
        IN  /\ (pc = "low_total" /\ k = i) => P_MPa[k] = C1_Rules(r)[C1_First(r)].v
            /\ (k < i /\ Sum_input(r) >= Dec(90, 0))
                  => P_MPa[k] = C1_Rules(r)[C1_First(r)].v

\* A sample for which the rule delta > 350 is the first to match while the
\* later rules delta > 210 and x > 0.05 match too, and e has been stored
C1_Witness ==
    /\ pc = "low_total"
    /\ LET r == amp_comps.rows[i]
       IN  /\ C1_First(r) = 6
           /\ C1_Rules(r)[7].c
           /\ C1_Rules(r)[10].c
           /\ P_MPa[i] = P_MPa_1e(r)
           /\ P_MPa_1e(r) # P_MPa_1d(r)

\* C2: a sample whose total oxide sum is below 90 has an undefined pressure:
\* in P_MPa once its loop iteration is over, in Calcs_R at every later
\* position, and in the returned table, whichever rule fired and whatever
\* the other checks decide.
C2_LowTotalUndefined ==
    \A k \in 1..Len_(amp_comps) :
        Sum_input(amp_comps.rows[k]) < Dec(90, 0) =>
            /\ k < i => IsNaN(P_MPa[k])
            /\ pc \in CalcsPositions => IsNaN(Calcs_R[k].P_kbar_calc)
            /\ pc = "done" => IsNaN(ret.table[k].P_kbar_calc)

\* A returned row with a total below 90 for which rule 11 selected estimate
\* 1a and no check but the first fails
C2_Witness ==
    /\ pc = "done"
    /\ \E k \in 1..Len_(amp_comps) :
          LET r == amp_comps.rows[k]
          IN  /\ Sum_input(r) < Dec(90, 0)
              /\ C1_First(r) = 11
              /\ ~Unbalanced_Charge(r) /\ ~Negative_Fe2(r) /\ ~Low_Mgno(r)
              /\ ~Ca_low(r) /\ ~Ca_high(r) /\ ~Low_B_Cations(r)
              /\ ret.table[k].equation = "1a"
              /\ IsNaN(ret.table[k].P_kbar_calc)

\* The nine checks in the order the specification gives, each with the
\* message it writes
C3_Checks(r) ==
    << [fails |-> Sum_input(r) < Dec(90, 0), msg |-> "Cation oxide Total<90"],
       [fails |-> Lt(Total_recalc(r), Dec(98, 50)), msg |-> "Recalc Total<98.5"],
       [fails |-> Gt(Total_recalc(r), Dec(102, 0)), msg |-> "Recalc Total>102"],
       [fails |-> Charge(r) > Dec(46, 50), msg |-> "unbalanced charge (>46.5)"],
       [fails |-> Fe2_calc(r) < 0, msg |-> "unbalanced charge (Fe2<0)"],
       [fails |-> Low_Mgno(r), msg |-> "Low Mg# (<54)"],
       [fails |-> r.cat13.CaO_Amp_13_cat < Dec(1, 50), msg |-> "Low Ca (<1.5)"],
       [fails |-> r.cat13.CaO_Amp_13_cat > Dec(2, 5), msg |-> "High Ca (>2.05)"],
       [fails |-> B_Sum(r) < Dec(1, 99), msg |-> "Low B Cations"] >>

\* How many of the nine checks have been evaluated at the current position
C3_Evaluated ==
    CASE pc = "Low_sum" -> 0
      [] pc = "Low_total_Recalc" -> 1
      [] pc = "High_total_Recalc" -> 2
      [] pc = "Unbalanced_Charge" -> 3
      [] pc = "Negative_Fe2" -> 4
      [] pc = "Low_Mgno" -> 5
      [] pc = "Ca_low" -> 6
      [] pc = "Ca_high" -> 7
      [] pc = "Low_B_Cations" -> 8
      [] pc \in {"clear", "return", "done"} -> 9
      [] OTHER -> -1

SetMax(S) == CHOOSE x \in S : \A y \in S : y <= x

\* C3: the checks run in the documented order and the reason field holds
\* the message of the last failing check: once the first n checks of the
\* order have been evaluated, a sample failing one of them carries the
\* message of the last of those n that it fails, and so does the returned row.
C3_LastFailingCheckWins ==
    C3_Evaluated >= 0 =>
        \A k \in 1..Len_(amp_comps) :
            LET r == amp_comps.rows[k]
                F == {j \in 1..C3_Evaluated : C3_Checks(r)[j].fails}
            IN  F # {} =>
                    /\ Calcs_R[k].Input_Check = "False"
                    /\ Calcs_R[k].Fail_Msg = C3_Checks(r)[SetMax(F)].msg
                    /\ pc = "done" =>
                          ret.table[k].Fail_Msg = C3_Checks(r)[SetMax(F)].msg

\* A returned row that fails the Fe2 check and, later in the order, the low
\* calcium check and nothing after it: its reason is the calcium message
C3_Witness ==
    /\ pc = "done"
    /\ \E k \in 1..Len_(amp_comps) :
          LET r == amp_comps.rows[k]
          IN  /\ C3_Checks(r)[5].fails
              /\ C3_Checks(r)[7].fails
              /\ ~C3_Checks(r)[8].fails
              /\ ~C3_Checks(r)[9].fails
              /\ ret.table[k].Fail_Msg = "Low Ca (<1.5)"

\* C4: in every returned row Input_Check = False implies an undefined
\* P_kbar_calc, whichever check failed; the clearing is the last step: until
\* all nine checks have been evaluated P_kbar_calc still is P_MPa / 100.
C4_FailedRowsCleared ==
    \A k \in 1..Len(Calcs_R) :
        /\ pc \in {"return", "done"} =>
              (Calcs_R[k].Input_Check = "False" => IsNaN(Calcs_R[k].P_kbar_calc))
        /\ pc = "done" =>
              (ret.table[k].Input_Check = "False" => IsNaN(ret.table[k].P_kbar_calc))
        /\ pc \in CalcsPositions \ {"return", "done"} =>
              Calcs_R[k].P_kbar_calc = P_kbar_of_MPa(P_MPa[k])

\* A returned row whose selected pressure was a number, that fails only the
\* last check, and whose pressure has been cleared
C4_Witness ==
    /\ pc = "done"
    /\ \E k \in 1..Len_(amp_comps) :
          LET r == amp_comps.rows[k]
          IN  /\ ~IsNaN(P_MPa[k])
              /\ \A j \in 1..8 : ~C3_Checks(r)[j].fails
              /\ C3_Checks(r)[9].fails
              /\ ret.table[k].Input_Check = "False"
              /\ ret.table[k].Fail_Msg = "Low B Cations"
              /\ IsNaN(ret.table[k].P_kbar_calc)

\* The seven labels of the specification, as the source spells them
C5_Labels == {"1b", "(1b+1c)/2", "1c", "(1c+1d)/2", "1d", "1e", "1a"}

\* C5: the label recorded for every classified sample is one of exactly
\* seven values and names the expression selected; both rules that select
\* the average of c and d record "(1c+1d)/2".
C5_SevenLabels ==
    \A k \in 1..Len(name) :
        (k < i \/ (k = i /\ pc = "low_total")) =>
            /\ name[k] \in C5_Labels
            /\ C1_First(amp_comps.rows[k]) \in {5, 10} => name[k] = "(1c+1d)/2"

\* A script's dispatch that has been made
Made(c) == c.kind = "call"

\* A concrete value a dispatcher accepts for the tables at hand: a number,
\* or a Series with one element per row of the table it is checked against
RowCount ==
    IF args.fn \in {"calculate_amp_liq_press", "calculate_amp_liq_temp"}
    THEN Len(liq_comps.rows) ELSE Len_(amp_comps)

PerSample(x) == x.kind = "scalar" \/ (x.kind = "Series" /\ Len(x.val) = RowCount)

\* The equations that require a dependent variable, with their dispatcher
C6_Requiring ==
    {<<"calculate_amp_only_press", "P_Anderson1995">>,
     <<"calculate_amp_only_temp", "T_Put2016_eq6">>,
     <<"calculate_amp_only_temp", "T_Put2016_eq8">>,
     <<"calculate_amp_only_temp", "T_Ridolfi2012">>}

RegistryOf(fn) ==
    CASE fn = "calculate_amp_only_press" -> Amp_only_P_funcs
      [] fn = "calculate_amp_only_temp" -> Amp_only_T_funcs
      [] fn = "calculate_amp_liq_press" -> Amp_Liq_P_funcs
      [] fn = "calculate_amp_liq_temp" -> Amp_Liq_T_funcs

\* The script's equation is registered and its descriptor does not require
\* a dependent variable
Independent ==
    /\ args.equation \in RegistryOf(args.fn)
    /\ args.equation \notin {"P_Anderson1995", "T_Put2016_eq6", "T_Put2016_eq8",
                             "T_Ridolfi2012"}

\* The dispatches the script has made
MadeCalls == {c \in {first, second} : Made(c)}

C8_SuppliedValueIgnored ==
    (/\ Independent
     /\ Made(first) /\ Made(second)
     /\ \/ (IsConcrete(first.dep) /\ PerSample(first.dep) /\ second.dep = DepNone)
        \/ (IsConcrete(second.dep) /\ PerSample(second.dep) /\ first.dep = DepNone)) =>
        first.out = second.out

\* P_Hollister1987 on two different rows, first with a two-element Series of
\* temperatures, then without T: the same two pressures
C8_Witness ==
    /\ pc = "done"
    /\ args.equation = "P_Hollister1987" /\ args.fn = "calculate_amp_only_press"
    /\ first.dep.kind = "Series" /\ Len(first.dep.val) = 2
    /\ second.dep = DepNone
    /\ first.out.kind = "Series" /\ first.out = second.out
    /\ first.out.val[1] # first.out.val[2]

\* The solver's P and T after n iterations of P <- P_func(T), T <- T_func(P)
\* from the caller's initial guess
RECURSIVE C9_After(_)
C9_After(n) ==
    IF n = 0 THEN [P |-> Unbound, T |-> DepScalar(args.T_K_guess)]
    ELSE LET P == CallPartial(P_func, C9_After(n - 1).T)
         IN  [P |-> P, T |-> CallPartial(T_func, P)]

\* C9: with both sides deferred the solver starts from T_K_guess and makes
\* exactly `iterations` rounds of P <- P_func(T), T <- T_func(P): in the loop
\* P and T are those of `rounds` rounds, the loop is left only when rounds
\* = iterations, whether or not the values still change, and the table
\* returned holds the P and T of the last round.
C9_ExactlyIterationsRounds ==
    (pc \in {"loop", "done"} /\ BothPartial(P_func, T_func)) =>
        /\ rounds <= args.iterations
        /\ evals = 2 * rounds
        /\ P_guess = C9_After(rounds).P
        /\ T_K_guess = C9_After(rounds).T
        /\ pc = "done" =>
              /\ rounds = args.iterations
              /\ args.iterations >= 1 =>
                    /\ ret.kind = "table"
                    /\ \A k \in DOMAIN ret.table :
                          /\ ret.table[k].P_kbar_calc = C9_After(args.iterations).P.val[k]
                          /\ ret.table[k].T_K_calc = C9_After(args.iterations).T.val[k]

\* P_Hollister1987 with T_Put2016_eq6 and iterations = 3, both deferred: the
\* first round moved T away from the guess, the second and the third changed
\* nothing, and the solver has made all three rounds and six calls
C9_Witness ==
    /\ pc = "done"
    /\ args.equationP = "P_Hollister1987" /\ args.equationT = "T_Put2016_eq6"
    /\ BothPartial(P_func, T_func)
    /\ args.iterations = 3 /\ rounds = 3 /\ evals = 6
    /\ C9_After(1).T # C9_After(0).T
    /\ C9_After(1) = C9_After(2) /\ C9_After(2) = C9_After(3)
    /\ ret.kind = "table"
    /\ ~IsNaN(ret.table[1].P_kbar_calc)
    /\ ret.table[1].T_K_calc = C9_After(3).T.val[1]

\* C10: when one side is a Series and the other a partial, the solver
\* calls the partial once with that Series and returns the two, without a
\* single round of the loop, whatever `iterations` is.  The concrete side
\* is always the pressure: the temperature dispatch is called with "Solve"
\* and never gives a Series.
C10_ShortCircuit ==
    /\ (pc \in {"loop", "done"} /\ IsSeries(P_func) /\ IsPartial(T_func)) =>
          /\ rounds = 0 /\ evals = 1
          /\ P_guess = P_func
          /\ T_K_guess = CallPartial(T_func, P_func)
          /\ pc = "done" =>
                /\ ret.kind = "table"
                /\ \A k \in DOMAIN ret.table :
                      /\ ret.table[k].P_kbar_calc = P_func.val[k]
                      /\ ret.table[k].T_K_calc = CallPartial(T_func, P_func).val[k]
    /\ ~IsSeries(T_func)

\* P_Ridolfi2021 with T_Put2016_eq6 and iterations = 3: the table returned
\* holds the selected pressure and the temperature at it, after no round
C10_Witness ==
    /\ pc = "done"
    /\ args.equationP = "P_Ridolfi2021" /\ args.equationT = "T_Put2016_eq6"
    /\ args.iterations = 3
    /\ IsSeries(P_func) /\ IsPartial(T_func)
    /\ rounds = 0 /\ evals = 1
    /\ ret.kind = "table"
    /\ ~IsNaN(ret.table[1].P_kbar_calc)
    /\ ret.table[1].T_K_calc = T_Put2016_eq6(ret.table[1].P_kbar_calc, T_func.kwargs[1])


\* The solver's pressure equation does not read T, its temperature equation
\* does not read P
C11_IndependentP == args.equationP # "P_Anderson1995"
C11_IndependentT == args.equationT \notin {"T_Put2016_eq6", "T_Put2016_eq8", "T_Ridolfi2012"}

\* The direct evaluation of the solver's two equations on its tables, with
\* the dependent value omitted
C11_DirectP ==
    IF args.fn = "calculate_amp_only_press_temp"
    THEN calculate_amp_only_press(amp_comps, args.equationP, DepNone, DepNone).out
    ELSE calculate_amp_liq_press(amp_comps, liq_comps, args.equationP, DepNone).out
C11_DirectT ==
    IF args.fn = "calculate_amp_only_press_temp"
    THEN calculate_amp_only_temp(amp_comps, args.equationT, DepNone).out
    ELSE calculate_amp_liq_temp(amp_comps, liq_comps, args.equationT, DepNone).out

C12_Line ==
    CASE args.fn = "calculate_amp_only_press" -> 285
      [] args.fn = "calculate_amp_only_temp" -> 807
      [] args.fn = "calculate_amp_liq_press" -> 985
      [] args.fn = "calculate_amp_liq_temp" -> 1085

\* C12: for an equation that requires a dependent variable, dispatch with
\* the value omitted (neither a number or Series nor "Solve") raises the
\* ValueError of the signature test, which precedes every normalisation and
\* every evaluation, and returns nothing.
C12_OmittedValueRaises ==
    \A c \in MadeCalls :
        (<<args.fn, args.equation>> \in C6_Requiring /\ c.dep = DepNone) =>
            c.out = Raise("ValueError", C12_Line)

\* T_Put2016_eq6 dispatched without P raises at line 807; the same call with
\* "Solve" on the same table returns an evaluator
C12_Witness ==
    /\ pc = "done"
    /\ args.fn = "calculate_amp_only_temp" /\ args.equation = "T_Put2016_eq6"
    /\ first.dep = DepNone /\ first.out = Raise("ValueError", 807)
    /\ second.dep = DepSolve /\ second.out.kind = "partial"

\* The identifiers a dispatcher accepts: its registry, and for
\* calculate_amp_only_press the two names handled outside the registry
C13_Accepted ==
    RegistryOf(args.fn) \cup
        (IF args.fn = "calculate_amp_only_press"
         THEN {"P_Ridolfi2021", "P_Mutch2016"} ELSE {})

\* The line that raises for a Series of another length, by dispatcher
C13_Line ==
    CASE args.fn = "calculate_amp_only_press" -> 293
      [] args.fn = "calculate_amp_only_temp" -> 815
      [] args.fn = "calculate_amp_liq_press" -> 993
      [] args.fn = "calculate_amp_liq_temp" -> 1093

\* A Series whose length is not the row count of the table it belongs to
C13_WrongLength(dep) == dep.kind = "Series" /\ Len(dep.val) # RowCount

\* C13: in every dispatcher and for every identifier it accepts, a Series
\* dependent value whose length differs from the table's row count makes
\* the dispatch raise the length-mismatch ValueError, before any evaluation.
C13_LengthMismatchRaises ==
    \A c \in MadeCalls :
        (args.equation \in C13_Accepted /\ C13_WrongLength(c.dep)) =>
            c.out = Raise("ValueError", C13_Line)

\* The same for the identifiers looked up in a registry, which is where
\* lines 276-293 make the test
C13_RegistryLengthMismatchRaises ==
    \A c \in MadeCalls :
        (args.equation \in RegistryOf(args.fn) /\ C13_WrongLength(c.dep)) =>
            c.out = Raise("ValueError", C13_Line)

\* P_Ridolfi2021 on two rows with a one-element Series T returns its table
C13_Unchecked ==
    /\ Made(first)
    /\ args.fn = "calculate_amp_only_press" /\ args.equation = "P_Ridolfi2021"
    /\ Len_(amp_comps) = 2
    /\ first.dep.kind = "Series" /\ Len(first.dep.val) = 1
    /\ first.out.kind = "table" /\ Len(first.out.table) = 2

\* The identifiers of the scripts that their dispatcher does not know
C14_Unregistered ==
    {<<"calculate_amp_only_press", "T_Put2016_eq5">>,
     <<"calculate_amp_only_temp", "P_Hollister1987">>,
     <<"calculate_amp_liq_press", "P_Hollister1987">>,
     <<"calculate_amp_liq_temp", "T_Put2016_eq5">>}

\* The line of the registry lookup's ValueError, by dispatcher
C14_Line ==
    CASE args.fn = "calculate_amp_only_press" -> 280
      [] args.fn = "calculate_amp_only_temp" -> 802
      [] args.fn = "calculate_amp_liq_press" -> 980
      [] args.fn = "calculate_amp_liq_temp" -> 1080

\* C14: for an identifier its dispatcher does not know, the dispatch raises
\* the ValueError of the registry lookup, whatever the dependent value is:
\* nothing is returned, and the lookup being the first statement, the table
\* is as it was (no Sample_ID_Amp column added, nothing normalised).
C14_UnknownEquationRaisesFirst ==
    \A c \in MadeCalls :
        <<args.fn, args.equation>> \in C14_Unregistered =>
            /\ c.out = Raise("ValueError", C14_Line)
            /\ c.after = c.before

\* calculate_amp_only_press with a thermometer's name, on a table without
\* Sample_ID_Amp and with a Series T of the wrong length: the lookup's error,
\* and the table still has no Sample_ID_Amp column
C14_Witness ==
    /\ Made(first)
    /\ args.fn = "calculate_amp_only_press" /\ args.equation = "T_Put2016_eq5"
    /\ C13_WrongLength(first.dep)
    /\ first.out = Raise("ValueError", 280)
    /\ ~first.before.Sample_ID_Amp /\ ~amp_comps.Sample_ID_Amp

\* The feature table whose columns the script's dispatch reads the keyword
\* arguments of its equation from (lines 609, 825, 831, 1012, 1105)
C15_Handed ==
    CASE args.fn \in {"calculate_amp_liq_press", "calculate_amp_liq_temp"} ->
            Combo_liq_amps(amp_comps, liq_comps)
      [] args.equation \in Ridolfi2012_names \cup {"T_Ridolfi2012"} -> Cat13(amp_comps)
      [] OTHER -> Ox23(amp_comps)

\* The script's equation is one its dispatcher evaluates with keyword
\* arguments read from a feature table, and a name of its signature is not a
\* column of that table
C15_FeatureAbsent ==
    /\ <<args.fn, args.equation>> \notin C14_Unregistered
    /\ args.equation \notin {"P_Kraw2012", "P_Ridolfi2021", "P_Mutch2016"}
    /\ ~(KeywordOnly(args.equation) \subseteq DOMAIN C15_Handed[1])

\* The line whose dictionary comprehension looks the columns up
C15_Line ==
    CASE args.fn = "calculate_amp_only_press" -> 609
      [] args.fn = "calculate_amp_only_temp" -> 831
      [] args.fn = "calculate_amp_liq_press" -> 1012
      [] args.fn = "calculate_amp_liq_temp" -> 1105

\* C15: if a feature that a registered equation requires is not a column of
\* the table handed to evaluation, the dispatch fails before the equation's
\* body runs: it returns nothing, and in a call that passes the tests made
\* before the table is built (a Series of the table's length, if one is
\* given) the error is the KeyError of the column lookup.  This is so for
\* T_Put2016_eq4a_amp_sat in the amphibole-only temperature registry, whose
\* liquid columns the amphibole table never has.
C15_MissingFeatureRaises ==
    \A c \in MadeCalls :
        C15_FeatureAbsent =>
            /\ c.out.kind = "error"
            /\ ~C13_WrongLength(c.dep) => c.out = Raise("KeyError", C15_Line)

\* calculate_amp_only_temp with T_Put2016_eq4a_amp_sat: KeyError at line 831
\* with "Solve" and with the value omitted
C15_Witness ==
    /\ pc = "done"
    /\ args.fn = "calculate_amp_only_temp" /\ args.equation = "T_Put2016_eq4a_amp_sat"
    /\ "FeOt_Liq_mol_frac_hyd" \notin DOMAIN C15_Handed[1]
    /\ first.dep = DepSolve /\ first.out = Raise("KeyError", 831)
    /\ second.dep = DepNone /\ second.out = Raise("KeyError", 831)

\* C16: the outcome of a dispatch is a function of its arguments only: the
\* script's two dispatches, made with the same equation on the same table
\* and with the same dependent value, end the same way, whatever other call
\* was made on that table before the second.
C16_OutcomeOfArgumentsOnly ==
    (Made(first) /\ Made(second) /\ first.dep = second.dep) =>
        first.out = second.out

\* The same, as long as no other call has been made on the table between
\* the two dispatches
C16_RepeatableOnUntouchedTable ==
    (Made(first) /\ Made(second) /\ first.dep = second.dep
     /\ second.before = first.after) =>
        first.out = second.out

\* calculate_amp_only_temp with T_Ridolfi2012 and "Solve" on a table that
\* has no Sample_ID_Amp column raises KeyError at line 823; after a
\* calculate_amp_only_press call on that table the same call returns an
\* evaluator
C16_DependsOnEarlierCall ==
    /\ pc = "done"
    /\ args.fn = "calculate_amp_only_temp" /\ args.equation = "T_Ridolfi2012"
    /\ first.dep = DepSolve /\ second.dep = DepSolve
    /\ ~first.before.Sample_ID_Amp
    /\ first.out = Raise("KeyError", 823)
    /\ second.before.Sample_ID_Amp
    /\ second.out.kind = "partial"

\* C17: a dispatch leaves the caller's amphibole table as it found it,
\* whether it returns or raises.
C17_TableUnchanged ==
    \A c \in MadeCalls : c.after = c.before

\* What does change: only calculate_amp_only_press changes the table, only
\* by adding the Sample_ID_Amp column of lines 309-310, and only when it
\* gets past the tests of lines 276-293 and the P_Kraw2012 branch
C17_OnlySampleIDAdded ==
    \A c \in MadeCalls :
        c.after # c.before =>
            /\ args.fn = "calculate_amp_only_press"
            /\ ~c.before.Sample_ID_Amp
            /\ c.after = [c.before EXCEPT !.Sample_ID_Amp = TRUE]
            /\ args.equation # "P_Kraw2012"
            /\ c.out.kind = "error" => c.out = Raise("UnboundLocalError", 396)

\* calculate_amp_only_press with P_Hollister1987 returned its pressures, and
\* the caller's table has a Sample_ID_Amp column it did not have
C17_ColumnAdded ==
    /\ Made(first)
    /\ args.fn = "calculate_amp_only_press" /\ args.equation = "P_Hollister1987"
    /\ first.out.kind = "Series"
    /\ ~first.before.Sample_ID_Amp /\ first.after.Sample_ID_Amp
    /\ pc = "between" /\ amp_comps.Sample_ID_Amp

\* The labels of the eleven rules, in the order of C1_Rules (lines 358-388)
C18_Labels ==
    << "1b", "(1b+1c)/2", "1c", "1c", "1c+1d", "1e", "1d", "1c", "(1b+1c)/2",
       "(1c+1d)/2", "1a" >>

\* The vectorized classifier after its first n masked assignments: rule n is
\* stored in the rows of the batch whose condition holds and in which no
\* earlier rule has been stored
RECURSIVE C18_Masked(_, _)
C18_Masked(rows, n) ==
    IF n = 0
    THEN [k \in DOMAIN rows |-> [assigned |-> FALSE, P |-> NaN, name |-> ""]]
    ELSE LET prev == C18_Masked(rows, n - 1)
         IN  [k \in DOMAIN rows |->
                 LET p == prev[k]
                     rule == C1_Rules(rows[k])[n]
                 IN  IF ~p.assigned /\ rule.c
                     THEN [assigned |-> TRUE, P |-> rule.v, name |-> C18_Labels[n]]
                     ELSE p]

\* The eleven masked assignments, then the low-total mask
C18_Vectorized(rows) ==
    [k \in DOMAIN rows |->
        LET m == C18_Masked(rows, 11)[k]
        IN  [P |-> IF Sum_input(rows[k]) < Dec(90, 0) THEN NaN ELSE m.P,
             name |-> m.name]]

\* C18: the per-sample loop and the vectorized classifier (the same eleven
\* rules as masked assignments in the same order, each on the rows not yet
\* assigned, then the low-total overwrite) give the same pressure and the
\* same label for every element of every batch: every sample whose
\* iteration is over holds what the vectorized classifier gives its row.
C18_LoopEqualsMaskedAssignments ==
    \A k \in 1..Len(P_MPa) :
        k < i =>
            LET v == C18_Vectorized(amp_comps.rows)[k]
            IN  P_MPa[k] = v.P /\ name[k] = v.name

\* A batch of two after the loop: in the first row the rule x > 0.22 is
\* stored although the rule x > 0.05 and the last rule match too, and the low
\* total makes the pressure undefined; the second row has what rule 1 gives
C18_Witness ==
    /\ pc = "APE" /\ Len_(amp_comps) = 2
    /\ LET r == amp_comps.rows[1]
       IN  /\ C1_First(r) = 5
           /\ C1_Rules(r)[10].c /\ C1_Rules(r)[11].c
           /\ Sum_input(r) < Dec(90, 0)
    /\ C1_First(amp_comps.rows[2]) = 1
    /\ IsNaN(P_MPa[1]) /\ name[1] = "1c+1d"
    /\ P_MPa[2] = P_MPa_1b(amp_comps.rows[2]) /\ name[2] = "1b"
    /\ \A k \in 1..2 : C18_Vectorized(amp_comps.rows)[k] = [P |-> P_MPa[k], name |-> name[k]]

\* P_MPa_1x / 100 on a row, for the equation of the name
C19_Single(equationP, r) ==
    P_kbar_of_MPa(CASE equationP = "P_Ridolfi2012_1a" -> P_MPa_1a(r)
                    [] equationP = "P_Ridolfi2012_1b" -> P_MPa_1b(r)
                    [] equationP = "P_Ridolfi2012_1c" -> P_MPa_1c(r)
                    [] equationP = "P_Ridolfi2012_1d" -> P_MPa_1d(r)
                    [] equationP = "P_Ridolfi2012_1e" -> P_MPa_1e(r))

\* C19: calculate_amp_only_press with P_Ridolfi2012_1a .. 1e, the
\* temperature omitted or given as a number or a per-sample Series, returns
\* for every sample the pressure of that single equation, P_MPa_1x / 100.
C19_SingleEquationReturned ==
    \A c \in MadeCalls :
        (/\ args.fn = "calculate_amp_only_press"
         /\ args.equation \in Ridolfi2012_names
         /\ c.dep = DepNone \/ (IsConcrete(c.dep) /\ PerSample(c.dep))) =>
            c.out = Series([k \in DOMAIN c.before.rows |->
                               C19_Single(args.equation, c.before.rows[k])])

\* calculate_amp_only_press with P_Ridolfi2012_1c and no temperature raised
\* UnboundLocalError at line 396
C19_Raises ==
    /\ Made(first)
    /\ args.fn = "calculate_amp_only_press" /\ args.equation = "P_Ridolfi2012_1c"
    /\ first.dep = DepNone
    /\ first.out = Raise("UnboundLocalError", 396)

\* Every dispatch of the five names that passes the length test ends at line
\* 396, whatever the temperature argument is
C19_AlwaysRaises ==
    \A c \in MadeCalls :
        (/\ args.fn = "calculate_amp_only_press"
         /\ args.equation \in Ridolfi2012_names
         /\ ~C13_WrongLength(c.dep)) =>
            c.out = Raise("UnboundLocalError", 396)

\* C20: in the table returned for P_Ridolfi2021, a sample whose APE exceeds
\* 60 has Input_Check = False and an undefined pressure, and its reason is
\* "APE >60" unless one of the nine later checks fails for it.
C20_HighAPEFlagged ==
    pc = "done" =>
        \A k \in 1..Len_(amp_comps) :
            High_APE(amp_comps.rows[k], P_MPa[k]) =>
                /\ ret.table[k].Input_Check = "False"
                /\ IsNaN(ret.table[k].P_kbar_calc)
                /\ (\A j \in 1..9 : ~C3_Checks(amp_comps.rows[k])[j].fails)
                      => ret.table[k].Fail_Msg = "APE >60"

\* What lines 410-411 set lasts until lines 435-436: after the APE step a
\* sample with APE > 60 is flagged, and after the two whole-column
\* assignments no sample is
C20_FlagResetBeforeChecks ==
    \A k \in 1..Len(Calcs_R) :
        /\ pc = "reset" =>
              (High_APE(amp_comps.rows[k], P_MPa[k])
                  <=> (Calcs_R[k].Input_Check = "False" /\ Calcs_R[k].Fail_Msg = "APE >60"))
        /\ pc = "Low_sum" =>
              (Calcs_R[k].Input_Check = "True" /\ Calcs_R[k].Fail_Msg = "")

\* A returned sample with 1a = 1000 MPa and a selected pressure of 300 MPa
\* (APE = 107) that passes the nine checks: Input_Check is True, the reason
\* is empty and the pressure is 3 kbar
C20_FlagLost ==
    /\ pc = "done"
    /\ \E k \in 1..Len_(amp_comps) :
          LET r == amp_comps.rows[k]
          IN  /\ P_MPa_1a(r) = MPa(1000) /\ P_MPa[k] = MPa(300)
              /\ High_APE(r, P_MPa[k])
              /\ \A j \in 1..9 : ~C3_Checks(r)[j].fails
              /\ ret.table[k].Input_Check = "True"
              /\ ret.table[k].Fail_Msg = ""
              /\ ret.table[k].P_kbar_calc = 3000

\* None of the nine gate predicates holds for the row
C21_Passes(r) == \A j \in 1..9 : ~C3_Checks(r)[j].fails

C22_P == Series([k \in DOMAIN ret.table |-> ret.table[k].P_kbar_calc])
C22_T == Series([k \in DOMAIN ret.table |-> ret.table[k].T_K_calc])

\* C22: whenever the coupled solve returns a table, its temperature column
\* is the deferred temperature evaluator applied to its pressure column:
\* the last evaluation of the branch taken is T_func at the returned P.
C22_TemperatureAtReturnedPressure ==
    (pc = "done" /\ ret.kind = "table") =>
        /\ IsPartial(T_func)
        /\ evals >= 1
        /\ C22_T = CallPartial(T_func, C22_P)

\* P_Anderson1995 with T_Put2016_eq6 after one round: T is T_func at the
\* returned P, a number that depends on P, while the returned P is P_func at
\* the initial guess and not at the returned T
C22_Witness ==
    /\ pc = "done" /\ ret.kind = "table"
    /\ args.equationP = "P_Anderson1995" /\ args.equationT = "T_Put2016_eq6"
    /\ args.iterations = 1 /\ rounds = 1
    /\ ~IsNaN(ret.table[1].T_K_calc) /\ ~IsNaN(ret.table[1].P_kbar_calc)
    /\ C22_T = CallPartial(T_func, C22_P)
    /\ C22_T # CallPartial(T_func, DepScalar(0))
    /\ C22_P = CallPartial(P_func, DepScalar(args.T_K_guess))
    /\ C22_P # CallPartial(P_func, C22_T)

\* The initial guesses and the pair after n rounds started from one of them
C23_Guesses == {a.T_K_guess : a \in SolveArgs}
RECURSIVE C23_After(_, _)
C23_After(n, guess) ==
    IF n = 0 THEN [P |-> Unbound, T |-> DepScalar(guess)]
    ELSE LET prev == C23_After(n - 1, guess)
             P == CallPartial(P_func, prev.T)
         IN  [P |-> P, T |-> CallPartial(T_func, P)]

\* What lines 910-926 leave in (P_guess, T_K_guess) for n rounds and a guess
C23_Outcome(n, guess) ==
    CASE IsSeries(P_func) /\ IsSeries(T_func) -> [P |-> P_func, T |-> T_func]
      [] IsSeries(P_func) /\ IsPartial(T_func) ->
            [P |-> P_func, T |-> CallPartial(T_func, P_func)]
      [] IsPartial(P_func) /\ IsSeries(T_func) ->
            [P |-> CallPartial(P_func, T_func), T |-> T_func]
      [] OTHER -> C23_After(n, guess)

\* C23: when the pressure equation does not depend on T, the table returned
\* for iterations >= 1 is the one every other initial guess and every other
\* number of rounds >= 1 gives, and in the loop the pair held after the first
\* round is reproduced by a further round.
C23_ResultIndependentOfGuessAndRounds ==
    C11_IndependentP =>
        /\ (pc = "done" /\ ret.kind = "table" /\ args.iterations >= 1) =>
              \A n \in 1..MaxIter, guess \in C23_Guesses :
                  LET o == C23_Outcome(n, guess)
                  IN  C22_P = o.P /\ C22_T = o.T
        /\ (pc = "loop" /\ BothPartial(P_func, T_func) /\ rounds >= 1) =>
              /\ CallPartial(P_func, T_K_guess) = P_guess
              /\ CallPartial(T_func, P_guess) = T_K_guess

\* Three rounds of P_Hollister1987 with the pressure-dependent T_Put2016_eq6
\* from 1000 K return what one round from 1300 K gives
C23_Witness ==
    /\ pc = "done" /\ ret.kind = "table"
    /\ args.equationP = "P_Hollister1987" /\ args.equationT = "T_Put2016_eq6"
    /\ IsPartial(P_func) /\ IsPartial(T_func)
    /\ args.iterations = MaxIter /\ rounds = MaxIter /\ args.T_K_guess = 100000
    /\ ~IsNaN(ret.table[1].P_kbar_calc) /\ ~IsNaN(ret.table[1].T_K_calc)
    /\ C22_T # CallPartial(T_func, DepScalar(0))
    /\ C22_P = C23_After(1, 130000).P /\ C22_T = C23_After(1, 130000).T

\* C24: with both sides deferred and iterations = 0 the loop body never runs,
\* no equation is evaluated, P_guess is never assigned, and the last line
\* raises instead of returning a table that pairs the initial guess with an
\* undefined pressure.
C24_ZeroIterationsRaises ==
    (pc = "done" /\ IsPartial(P_func) /\ IsPartial(T_func) /\ args.iterations = 0) =>
        /\ ret.kind = "error"
        /\ ret.class = "UnboundLocalError"
        /\ rounds = 0 /\ evals = 0
        /\ P_guess = Unbound
        /\ T_K_guess = DepScalar(args.T_K_guess)

C24_Witness ==
    /\ pc = "done" /\ args.iterations = 0
    /\ args.equationP = "P_Anderson1995" /\ args.equationT = "T_Put2016_eq6"
    /\ IsPartial(P_func) /\ IsPartial(T_func)
    /\ Len_(amp_comps) >= 1
    /\ ret.kind = "error" /\ ret.class = "UnboundLocalError"
    /\ P_guess = Unbound

\* C25: for every sample the B-site sum, B_Sum = min(Na, 2 - Ca) + Ca, is at
\* most 2; a sample with Ca > 2.05 and Na >= 0 does not fail the 'Low B
\* Cations' check, so that it is returned as failed with the reason
\* 'High Ca (>2.05)'; and no sample fails both calcium checks.
C25_BSiteSumAtMostTwo ==
    pc = "done" =>
        \A k \in 1..Len_(amp_comps) :
            LET r == amp_comps.rows[k]
                Ca == r.cat13.CaO_Amp_13_cat
                Na == r.cat13.Na2O_Amp_13_cat
            IN  /\ B_Sum(r) <= Dec(2, 0)
                /\ B_Sum(r) = (IF Na < Dec(2, 0) - Ca THEN Na ELSE Dec(2, 0) - Ca) + Ca
                /\ (Ca > Dec(2, 5) /\ Na >= 0) =>
                      /\ B_Sum(r) = Dec(2, 0)
                      /\ ~Low_B_Cations(r)
                      /\ ret.table[k].Input_Check = "False"
                      /\ ret.table[k].Fail_Msg = "High Ca (>2.05)"
                /\ ~(Ca_low(r) /\ Ca_high(r))
                /\ ~(C3_Checks(r)[7].fails /\ C3_Checks(r)[8].fails)

\* A returned sample with Ca = 2.10 that fails an earlier check as well:
\* its reason is the high-calcium one
C25_Witness ==
    /\ pc = "done"
    /\ \E k \in 1..Len_(amp_comps) :
          LET r == amp_comps.rows[k]
          IN  /\ r.cat13.CaO_Amp_13_cat > Dec(2, 5)
              /\ r.cat13.Na2O_Amp_13_cat > 0
              /\ \E j \in 1..6 : C3_Checks(r)[j].fails
              /\ Ca_high(r) /\ ~Low_B_Cations(r)
              /\ ret.table[k].Fail_Msg = "High Ca (>2.05)"
============================================================================
